---------------------------- MODULE Spec2Model ----------------------------
(***************************************************************************)
(* A model of kurobako's DeepOBS problem (src/src/deepobs.rs): the recipe, *)
(* the problem built from it, the evaluators created by the problem and    *)
(* DeepobsEvaluator::evaluate with its fidelity selection, its command     *)
(* line, its budget accounting and its result scanner get_score.           *)
(*                                                                         *)
(* Text is a sequence of tokens (strings).  A name such as adam.beta1 is   *)
(* <<"adam", ".", "beta1">>: the dot is a token of its own and no other    *)
(* token holds one, so that contains('.') and splitn(2, '.') are computed  *)
(* on the tokens as the code computes them on the characters.              *)
(***************************************************************************)
EXTENDS Integers, Sequences, FiniteSets, TLC

VARIABLES
    recipe,      \* the DeepobsProblemRecipe
    trial,       \* the configuration under evaluation, and what the external
                 \* process writes to its output directory when run for it
    problem,     \* the result of recipe.create_problem()
    evaluators,  \* the evaluators the problem has created
    calls,       \* for each evaluator, its latest call of evaluate
    scratch,     \* the scratch directories that exist
    registry,       \* the shared problem cache: for each signature, the
                    \* weak reference to a process handle (0: no entry)
    processes,      \* the process handles ever created, in order of creation
    clients,        \* the callers of the cache and what each is doing
    registry_lock,  \* the caller that holds the lock of the registry (0: free)
    sigopt,         \* the sigopt problem: its recipe, and the factory, the
                    \* specification, the problem, the evaluator and the
                    \* calls of evaluate made from it
    stats           \* the stats command: its study records and its loop

deepobs_vars == <<recipe, trial, problem, evaluators, calls, scratch>>

cache_vars == <<registry, processes, clients, registry_lock>>

vars == <<deepobs_vars, cache_vars, sigopt, stats>>

---------------------------------------------------------------------------
(* Bounds of the model *)

\* longest declared schedule (--epochs)
MaxLen == 3
\* largest checkpoint cost of the enumerated schedules
MaxEpoch == 2
\* largest requested budget of the enumerated budgets
MaxBudget == 3

---------------------------------------------------------------------------
(* Generic helpers *)

Last(s) == s[Len(s)]

Front(s) == SubSeq(s, 1, Len(s) - 1)

Reverse(s) == [i \in 1..Len(s) |-> s[Len(s) + 1 - i]]

Range(s) == {s[i] : i \in 1..Len(s)}

SeqsUpTo(S, n) == UNION {[1..k -> S] : k \in 0..n}

Min(S) == CHOOSE x \in S : \A y \in S : x <= y

Max(S) == CHOOSE x \in S : \A y \in S : x >= y

IsAscending(s) == \A i \in 1..Len(s) - 1 : s[i] <= s[i + 1]

Digit(d) == <<"0", "1", "2", "3", "4", "5", "6", "7", "8", "9">>[d + 1]

RECURSIVE NatToString(_)
\* u64::to_string, u32::to_string: the decimal digits, most significant first
NatToString(n) ==
    IF n < 10 THEN <<Digit(n)>> ELSE NatToString(n \div 10) \o <<Digit(n % 10)>>

\* i64::to_string
IntToString(n) == IF n < 0 THEN <<"-">> \o NatToString(-n) ELSE NatToString(n)

\* f64::to_string of the value t/10 (a continuous value is held in tenths):
\* no fraction is printed for a whole number
F64ToString(t) ==
    LET a == IF t < 0 THEN -t ELSE t
        whole == NatToString(a \div 10)
        frac == IF a % 10 = 0 THEN <<>> ELSE <<".", Digit(a % 10)>>
    IN  (IF t < 0 THEN <<"-">> ELSE <<>>) \o whole \o frac

---------------------------------------------------------------------------
(* OPTIMIZERS, deepobs.rs:21-31 *)

OPTIMIZERS ==
    << <<"adadelta">>, <<"adagrad">>, <<"adam">>, <<"gradient-descent">>,
       <<"momentum">>, <<"proximal-adagrad">>, <<"proximal-gradient-descent">>,
       <<"rms-prop">> >>

---------------------------------------------------------------------------
(* Fidelity selection, deepobs.rs:219-223 *)

RECURSIVE PopWhileNotGreater(_, _)
\* PopWhileSmaller with <= for <
PopWhileNotGreater(epochs, amount) ==
    IF Len(epochs) > 1 /\ Last(epochs) <= amount
    THEN PopWhileNotGreater(Front(epochs), amount)
    ELSE epochs

RECURSIVE PopWhileGreater(_, _)
\* PopWhileSmaller with > for <
PopWhileGreater(epochs, amount) ==
    IF Len(epochs) > 1 /\ Last(epochs) > amount
    THEN PopWhileGreater(Front(epochs), amount)
    ELSE epochs

RECURSIVE PopWhileSmallerToEmpty(_, _)
\* PopWhileSmaller without the test of the length
PopWhileSmallerToEmpty(epochs, amount) ==
    IF epochs # <<>> /\ Last(epochs) < amount
    THEN PopWhileSmallerToEmpty(Front(epochs), amount)
    ELSE epochs

RECURSIVE PopWhileSmaller(_, _)
\* while self.epochs.len() > 1 && self.epochs.last() < Some(&budget.amount)
\*     { self.epochs.pop(); }
PopWhileSmaller(epochs, amount) ==
    IF Len(epochs) > 1 /\ Last(epochs) < amount
    THEN PopWhileSmaller(Front(epochs), amount)
    ELSE epochs

---------------------------------------------------------------------------
(* enum TestProblem and its Display, deepobs.rs:282-324.  A variant is the  *)
(* sequence of the characters of its Rust identifier.                      *)

Svhn_3c3d == <<"S", "v", "h", "n", "_", "3", "c", "3", "d">>

Quadratic_deep ==
    <<"Q", "u", "a", "d", "r", "a", "t", "i", "c", "_", "d", "e", "e", "p">>

TestProblem ==
    { <<"C", "i", "f", "a", "r", "1", "0", "_", "3", "c", "3", "d">>,
      <<"C", "i", "f", "a", "r", "1", "0", "_", "v", "g", "g", "1", "6">>,
      <<"C", "i", "f", "a", "r", "1", "0", "_", "v", "g", "g", "1", "9">>,
      <<"C", "i", "f", "a", "r", "1", "0", "0", "_", "3", "c", "3", "d">>,
      <<"C", "i", "f", "a", "r", "1", "0", "0", "_", "a", "l", "l", "c", "n", "n", "c">>,
      <<"C", "i", "f", "a", "r", "1", "0", "0", "_", "v", "g", "g", "1", "6">>,
      <<"C", "i", "f", "a", "r", "1", "0", "0", "_", "v", "g", "g", "1", "9">>,
      <<"C", "i", "f", "a", "r", "1", "0", "0", "_", "w", "r", "n", "4", "0", "4">>,
      <<"F", "m", "n", "i", "s", "t", "_", "2", "c", "2", "d">>,
      <<"F", "m", "n", "i", "s", "t", "_", "l", "o", "g", "r", "e", "g">>,
      <<"F", "m", "n", "i", "s", "t", "_", "m", "l", "p">>,
      <<"F", "m", "n", "i", "s", "t", "_", "v", "a", "e">>,
      <<"I", "m", "a", "g", "e", "n", "e", "t", "_", "i", "n", "c", "e", "p", "t", "i", "o", "n", "_", "v", "3">>,
      <<"I", "m", "a", "g", "e", "n", "e", "t", "_", "v", "g", "g", "1", "6">>,
      <<"I", "m", "a", "g", "e", "n", "e", "t", "_", "v", "g", "g", "1", "9">>,
      <<"M", "n", "i", "s", "t", "_", "2", "c", "2", "d">>,
      <<"M", "n", "i", "s", "t", "_", "l", "o", "g", "r", "e", "g">>,
      <<"M", "n", "i", "s", "t", "_", "m", "l", "p">>,
      <<"M", "n", "i", "s", "t", "_", "v", "a", "e">>,
      <<"Q", "u", "a", "d", "r", "a", "t", "i", "c", "_", "d", "e", "e", "p">>,
      <<"S", "v", "h", "n", "_", "3", "c", "3", "d">>,
      <<"S", "v", "h", "n", "_", "w", "r", "n", "1", "6", "4">>,
      <<"T", "o", "l", "s", "t", "o", "i", "_", "c", "h", "a", "r", "_", "r", "n", "n">>,
      <<"T", "w", "o", "_", "d", "_", "b", "e", "a", "l", "e">>,
      <<"T", "w", "o", "_", "d", "_", "b", "r", "a", "n", "i", "n">>,
      <<"T", "w", "o", "_", "d", "_", "r", "o", "s", "e", "n", "b", "r", "o", "c", "k">> }

UpperCase ==
    <<"A", "B", "C", "D", "E", "F", "G", "H", "I", "J", "K", "L", "M",
      "N", "O", "P", "Q", "R", "S", "T", "U", "V", "W", "X", "Y", "Z">>

LowerCase ==
    <<"a", "b", "c", "d", "e", "f", "g", "h", "i", "j", "k", "l", "m",
      "n", "o", "p", "q", "r", "s", "t", "u", "v", "w", "x", "y", "z">>

IsUpperCase(ch) == \E i \in 1..Len(UpperCase) : UpperCase[i] = ch

ToAsciiLowerCase(ch) ==
    IF IsUpperCase(ch)
    THEN LowerCase[CHOOSE i \in 1..Len(UpperCase) : UpperCase[i] = ch]
    ELSE ch

RECURSIVE SnakeCaseFrom(_, _)
\* #[serde(rename_all = "snake_case")] on the variants: an upper-case letter
\* that is not the first character gets a '_' before it, every character is
\* lower-cased
SnakeCaseFrom(variant, i) ==
    IF i > Len(variant) THEN <<>>
    ELSE (IF i > 1 /\ IsUpperCase(variant[i]) THEN <<"_">> ELSE <<>>)
         \o <<ToAsciiLowerCase(variant[i])>>
         \o SnakeCaseFrom(variant, i + 1)

\* serde_json::to_string(self) of a unit variant: the renamed variant as a
\* JSON string, quotes included
SerdeJsonToString(variant) == <<"\"">> \o SnakeCaseFrom(variant, 1) \o <<"\"">>

\* the text with its quotes left in
KeepQuotes(s) == s

RECURSIVE RemoveQuotes(_)
\* .replace('"', "")
RemoveQuotes(s) ==
    IF s = <<>> THEN <<>>
    ELSE (IF Head(s) = "\"" THEN <<>> ELSE <<Head(s)>>) \o RemoveQuotes(Tail(s))

\* impl fmt::Display for TestProblem, computed once for every variant
Display == [variant \in TestProblem |-> RemoveQuotes(SerdeJsonToString(variant))]

\* self.problem.recipe.problem.to_string()
TestProblemToString(variant) == Display[variant]

---------------------------------------------------------------------------
(* DeepobsProblemRecipe::params_domain, deepobs.rs:47-130 *)

Dot == "."

choices(name) ==
    [name |-> name, kind |-> "categorical", inner |-> "-", optimizer |-> <<>>]

uniform(name) ==
    [name |-> name, kind |-> "continuous", inner |-> "-", optimizer |-> <<>>]

log_uniform(name) ==
    [name |-> name, kind |-> "continuous", inner |-> "-", optimizer |-> <<>>]

int(name) ==
    [name |-> name, kind |-> "discrete", inner |-> "-", optimizer |-> <<>>]

boolean(name) ==
    [name |-> name, kind |-> "categorical", inner |-> "-", optimizer |-> <<>>]

\* when(category_eq("optimizer", optimizer), param): the conditional domain
\* keeps the name of the parameter it wraps
opt_param(optimizer, param) ==
    [name |-> param.name, kind |-> "conditional", inner |-> param.kind,
     optimizer |-> <<optimizer>>]

params_domain ==
    << choices(<<"optimizer">>),
       log_uniform(<<"learning_rate">>),
       uniform(<<"weight_decay">>),
       int(<<"batch_size">>),
       opt_param("adadelta", uniform(<<"adadelta", Dot, "rho">>)),
       opt_param("adadelta", log_uniform(<<"adadelta", Dot, "epsilon">>)),
       opt_param("adagrad",
                 uniform(<<"adagrad", Dot, "initial_accumulator_value">>)),
       opt_param("adam", uniform(<<"adam", Dot, "beta1">>)),
       opt_param("adam", uniform(<<"adam", Dot, "beta2">>)),
       opt_param("adam", log_uniform(<<"adam", Dot, "epsilon">>)),
       opt_param("momentum", uniform(<<"momentum", Dot, "momentum">>)),
       opt_param("momentum", boolean(<<"momentum", Dot, "use_nesterov">>)),
       opt_param("proximal-adagrad",
                 uniform(<<"proximal-adagrad", Dot,
                           "initial_accumulator_value">>)),
       opt_param("proximal-adagrad",
                 uniform(<<"proximal-adagrad", Dot,
                           "l1_regularization_strength">>)),
       opt_param("proximal-adagrad",
                 uniform(<<"proximal-adagrad", Dot,
                           "l2_regularization_strength">>)),
       opt_param("proximal-gradient-descent",
                 uniform(<<"proximal-gradient-descent", Dot,
                           "l1_regularization_strength">>)),
       opt_param("proximal-gradient-descent",
                 uniform(<<"proximal-gradient-descent", Dot,
                           "l2_regularization_strength">>)),
       opt_param("rms-prop", uniform(<<"rms-prop", Dot, "decay">>)),
       opt_param("rms-prop", uniform(<<"rms-prop", Dot, "momentum">>)),
       opt_param("rms-prop", log_uniform(<<"rms-prop", Dot, "epsilon">>)),
       opt_param("rms-prop", boolean(<<"rms-prop", Dot, "centered">>)) >>

---------------------------------------------------------------------------
(* ParamValue (kurobako_core), as deepobs.rs:226 and 247-260 match on it.   *)
(* A continuous value is held in tenths.                                   *)

NoInner == [tag |-> "-", v |-> 0]

Continuous(x) == [tag |-> "Continuous", v |-> x, inner |-> NoInner]

Discrete(n) == [tag |-> "Discrete", v |-> n, inner |-> NoInner]

Categorical(i) == [tag |-> "Categorical", v |-> i, inner |-> NoInner]

\* Conditional(Some(Box::new(value)))
ConditionalSome(value) ==
    [tag |-> "Conditional", v |-> 0,
     inner |-> [tag |-> value.tag, v |-> value.v]]

\* Conditional(None)
ConditionalNone ==
    [tag |-> "Conditional", v |-> 0, inner |-> [tag |-> "None", v |-> 0]]

---------------------------------------------------------------------------
(* The command line of evaluate, deepobs.rs:228-267 *)

\* name.contains('.')
ContainsDot(name) == \E i \in 1..Len(name) : name[i] = Dot

FirstDot(name) == Min({i \in 1..Len(name) : name[i] = Dot})

\* name.splitn(2, '.').nth(0)
SplitNth0(name) ==
    IF ContainsDot(name) THEN SubSeq(name, 1, FirstDot(name) - 1) ELSE name

\* name.splitn(2, '.').nth(1), for a name that holds a dot
SplitNth1(name) == SubSeq(name, FirstDot(name) + 1, Len(name))

\* IsSkippedName with == for !=
IsSkippedNameOfOptimizer(optimizer, name) ==
    ContainsDot(name) /\ optimizer = SplitNth0(name)

\* the name is for another optimizer: deepobs.rs:243
IsSkippedName(optimizer, name) ==
    ContainsDot(name) /\ optimizer # SplitNth0(name)

\* deepobs.rs:261-265
FlagKey(name) == IF ContainsDot(name) THEN SplitNth1(name) ELSE name

\* what the loop of deepobs.rs:235-267 computes from the name of a declared
\* parameter, computed once for every name of the domain
Names ==
    [name \in {params_domain[i].name : i \in 1..Len(params_domain)} |->
        [skipped |-> [o \in Range(OPTIMIZERS) |-> IsSkippedName(o, name)],
         flag |-> <<"--">> \o FlagKey(name)]]

\* the match of deepobs.rs:247-260: the text of the value, or no text where
\* the match arm is `continue`
ValueText(value) ==
    IF value.tag = "Continuous" THEN [some |-> TRUE, text |-> F64ToString(value.v)]
    ELSE IF value.tag = "Discrete"
    THEN [some |-> TRUE, text |-> IntToString(value.v)]
    ELSE IF value.tag = "Conditional" /\ value.inner.tag = "Continuous"
    THEN [some |-> TRUE, text |-> F64ToString(value.inner.v)]
    ELSE IF value.tag = "Conditional" /\ value.inner.tag = "Discrete"
    THEN [some |-> TRUE, text |-> IntToString(value.inner.v)]
    ELSE [some |-> FALSE, text |-> <<>>]

RECURSIVE FlagsFrom(_, _, _, _)
\* the loop of deepobs.rs:235-267 over domain.skip(1) zipped with
\* params.skip(1), from position i on: the flags it adds, each with the
\* position of the parameter it comes from
FlagsFrom(optimizer, domain, params, i) ==
    IF i > Len(domain) \/ i > Len(params) THEN <<>>
    ELSE LET name == domain[i].name
             v == ValueText(params[i])
             rest == FlagsFrom(optimizer, domain, params, i + 1)
         IN  IF Names[name].skipped[optimizer] THEN rest
             ELSE IF ~v.some THEN rest
             ELSE <<[index |-> i, flag |-> Names[name].flag,
                     value |-> v.text]>> \o rest

\* a value of the kind a parameter declares: 0.5, 32, the second choice
NaturalValue(kind) ==
    IF kind = "continuous" THEN Continuous(5)
    ELSE IF kind = "discrete" THEN Discrete(32)
    ELSE Categorical(1)

\* a configuration as the parameter domain describes it: the optimizer with
\* index o, and a Conditional that is Some exactly for that optimizer
NaturalParams ==
    [o \in 0..Len(OPTIMIZERS) - 1 |->
     [i \in 1..Len(params_domain) |->
        LET d == params_domain[i]
        IN  IF i = 1 THEN Categorical(o)
            ELSE IF d.kind = "conditional"
            THEN IF d.optimizer = OPTIMIZERS[o + 1]
                 THEN ConditionalSome(NaturalValue(d.inner))
                 ELSE ConditionalNone
            ELSE NaturalValue(d.kind)]]

\* the flags of the natural configurations, computed once
NaturalFlags ==
    [o \in 0..Len(OPTIMIZERS) - 1 |->
        FlagsFrom(OPTIMIZERS[o + 1], params_domain, NaturalParams[o], 2)]

\* the flags of one call: FlagsFrom, looked up where it is already computed
Flags(optimizer, domain, params) ==
    IF domain = params_domain /\ params = NaturalParams[params[1].v]
    THEN NaturalFlags[params[1].v]
    ELSE FlagsFrom(optimizer, domain, params, 2)

RECURSIVE FlagArgs(_)
\* command.arg(format!("--{}", k)).arg(v) of every flag
FlagArgs(flags) ==
    IF flags = <<>> THEN <<>>
    ELSE <<Head(flags).flag, Head(flags).value>> \o FlagArgs(Tail(flags))

\* FixedArgs with --num_epochs put before --random_seed
FixedArgsEpochsFirst(optimizer, rcp, output_dir, seed, epochs) ==
    << optimizer,
       TestProblemToString(rcp.problem),
       <<"--data_dir">>, rcp.data_dir,
       <<"--output_dir">>, output_dir,
       <<"--num_epochs">>, NatToString(epochs),
       <<"--random_seed">>, NatToString(seed) >>

\* deepobs.rs:229-234
FixedArgs(optimizer, rcp, output_dir, seed, epochs) ==
    << optimizer,
       TestProblemToString(rcp.problem),
       <<"--data_dir">>, rcp.data_dir,
       <<"--output_dir">>, output_dir,
       <<"--random_seed">>, NatToString(seed),
       <<"--num_epochs">>, NatToString(epochs) >>

CommandArgs(optimizer, rcp, output_dir, seed, epochs, flags) ==
    FixedArgs(optimizer, rcp, output_dir, seed, epochs) \o FlagArgs(flags)

---------------------------------------------------------------------------
(* The scratch directory the external process leaves behind.  A directory  *)
(* is the sequence of its entries in the order fs::read_dir lists them; an *)
(* entry is a file with the json extension, another file, or a directory.  *)
(* The path of an entry is the sequence of listing positions leading to    *)
(* it, <<>> being the directory handed to get_score.                       *)

\* a file *.json that serde_json parses as a TestResult
JsonFile(accuracies) ==
    [kind |-> "json", parses |-> TRUE, test_accuracies |-> accuracies,
     children |-> <<>>]

\* an entry *.json that cannot be opened or parsed as a TestResult
BadJsonFile ==
    [kind |-> "json", parses |-> FALSE, test_accuracies |-> <<>>,
     children |-> <<>>]

\* a file without the json extension
OtherFile ==
    [kind |-> "file", parses |-> FALSE, test_accuracies |-> <<>>,
     children |-> <<>>]

Dir(children) ==
    [kind |-> "dir", parses |-> FALSE, test_accuracies |-> <<>>,
     children |-> children]

---------------------------------------------------------------------------
(* Results: Result<T> of kurobako_core, and a panic of the call *)

\* Ok(value); the value is held in a sequence: <<score>> is the f64 of
\* get_score and the one-element Values of evaluate
Ok(value) == [tag |-> "Ok", value |-> value, kind |-> "-", path |-> <<>>]

\* an error that names no path
Err(kind) == [tag |-> "Err", value |-> <<>>, kind |-> kind, path |-> <<>>]

\* track_panic!(ErrorKind::InvalidInput, "No result JSON file is found: {:?}",
\* dir): the error that names the directory in which the scan ended
ErrNoResult(dir) ==
    [tag |-> "Err", value |-> <<>>, kind |-> "NoResult", path |-> dir]

Panic == [tag |-> "Panic", value |-> <<>>, kind |-> "-", path |-> <<>>]

---------------------------------------------------------------------------
(* DeepobsEvaluator::get_score, deepobs.rs:193-215 *)

\* ParseScore with the first accuracy for the last
ParseFirstScore(entry) ==
    IF ~entry.parses THEN Err("Other")
    ELSE IF entry.test_accuracies = <<>> THEN Err("InvalidInput")
    ELSE Ok(<<Head(entry.test_accuracies)>>)

\* deepobs.rs:200-204: the file is parsed, the last accuracy is the score
ParseScore(entry) ==
    IF ~entry.parses THEN Err("Other")
    ELSE IF entry.test_accuracies = <<>> THEN Err("InvalidInput")
    ELSE Ok(<<Last(entry.test_accuracies)>>)

RECURSIVE ScanFrom(_, _, _)
\* the for loop of get_score over the entries of dir, from position i on.
\* The result of the scan and, in `examined`, the paths of the entries the
\* loop has looked at, in order.
ScanFrom(dir, entries, i) ==
    IF i > Len(entries)
    THEN [result |-> ErrNoResult(dir), examined |-> <<>>]
    ELSE LET entry == entries[i]
             path == Append(dir, i)
         IN  IF entry.kind = "json"
             THEN [result |-> ParseScore(entry), examined |-> <<path>>]
             ELSE IF entry.kind = "dir"
             THEN LET sub == ScanFrom(path, entry.children, 1)
                  IN  [result |-> sub.result,
                       examined |-> <<path>> \o sub.examined]
             ELSE LET rest == ScanFrom(dir, entries, i + 1)
                  IN  [result |-> rest.result,
                       examined |-> <<path>> \o rest.examined]

get_score(entries) == ScanFrom(<<>>, entries, 1)

---------------------------------------------------------------------------
(* DeepobsEvaluator::evaluate, deepobs.rs:218-279 *)

NoCall ==
    [tag |-> "none", params |-> <<>>, budget_in |-> [amount |-> 0, consumption |-> 0],
     budget |-> [amount |-> 0, consumption |-> 0], before |-> <<>>,
     after |-> <<>>, selected |-> FALSE, epochs |-> 0, output_dir |-> <<>>,
     built |-> FALSE, args |-> <<>>, flags |-> <<>>, started |-> FALSE,
     spawned |-> 0,
     outcome |-> "-", tree |-> <<>>, examined |-> <<>>, result |-> Panic]

\* Consume with the requested amount for the selected cost
ConsumeAmount(budget, epochs) == [budget EXCEPT !.consumption = budget.amount]

\* budget.consumption = epochs, deepobs.rs:275
Consume(budget, epochs) == [budget EXCEPT !.consumption = epochs]

\* status.success() that holds of every exit status
SuccessAlways(kind) == TRUE

\* status.success(), deepobs.rs:273
Success(kind) == kind = "exit_ok"

\* How one call fares: tempdir() fails ("tempdir_err"), the process cannot
\* be started ("spawn_err"), it exits with a failure status ("exit_failure")
\* or with success ("exit_ok"); in the last two cases `tree` is what it has
\* written to the output directory.
Outcome(kind, tree) == [kind |-> kind, tree |-> tree]

OutcomeKinds == {"tempdir_err", "spawn_err", "exit_failure", "exit_ok"}

\* One call of evaluate on the evaluator ev: the record of everything the
\* call does.  `spawned` counts the executions of command.status().  `after` is self.epochs when the call ends, `budget` the
\* caller's budget when it ends.
EvaluateCall(ev, params, budget, output_dir, x) ==
    LET after == PopWhileSmaller(ev.epochs, budget.amount)
        base == [NoCall EXCEPT !.tag = "done", !.params = params,
                               !.budget_in = budget, !.budget = budget,
                               !.before = ev.epochs, !.after = after,
                               !.outcome = x.kind]
    IN  IF after = <<>>
        THEN \* self.epochs.last().unwrap() of an empty schedule
             [base EXCEPT !.result = Panic]
        ELSE
        LET epochs == Last(after)
            sel == [base EXCEPT !.selected = TRUE, !.epochs = epochs]
        IN  IF x.kind = "tempdir_err"
            THEN [sel EXCEPT !.result = Err("Other")]
            ELSE
            LET dir == [sel EXCEPT !.output_dir = output_dir]
            IN  IF params = <<>>
                THEN \* params[0] of an empty slice
                     [dir EXCEPT !.result = Panic]
                ELSE IF params[1].tag # "Categorical"
                THEN \* as_categorical() is None
                     [dir EXCEPT !.result = Err("InvalidInput")]
                ELSE IF params[1].v + 1 > Len(OPTIMIZERS)
                THEN \* OPTIMIZERS[index] out of bounds
                     [dir EXCEPT !.result = Panic]
                ELSE
                LET optimizer == OPTIMIZERS[params[1].v + 1]
                    flags == Flags(optimizer, ev.problem.params_domain, params)
                    args == CommandArgs(optimizer, ev.problem.recipe,
                                        output_dir, ev.seed, epochs, flags)
                    cmd == [dir EXCEPT !.built = TRUE, !.flags = flags,
                                       !.args = args]
                IN  IF x.kind = "spawn_err"
                    THEN [cmd EXCEPT !.result = Err("Other")]
                    ELSE
                    LET ran == [cmd EXCEPT !.started = TRUE, !.spawned = 1,
                                           !.tree = x.tree]
                    IN  IF ~Success(x.kind)
                        THEN [ran EXCEPT !.result = Err("Other")]
                        ELSE
                        LET scan == get_score(x.tree)
                        IN  [ran EXCEPT !.budget = Consume(budget, epochs),
                                        !.examined = scan.examined,
                                        !.result =
                                            IF scan.result.tag = "Ok"
                                            THEN Ok(<<scan.result.value[1]>>)
                                            ELSE scan.result]

---------------------------------------------------------------------------
(* The shared problem cache and the shared process handles.  A signature   *)
(* is the canonical argument list of an invocation.  A process handle owns *)
(* one external process, which lives as long as the handle has a strong    *)
(* reference; the registry holds a weak reference, which resolves as long  *)
(* as the process lives.  The handle of process p is processes[p].         *)

\* the process handles ever created
MaxProcesses == 3

Signatures ==
    { <<"deepobs", "svhn_3c3d", "--epochs", "1">>,
      <<"deepobs", "svhn_3c3d", "--epochs", "2">> }

Callers == {1, 2, 3}

NoClient == [pc |-> "idle", signature |-> <<>>, handle |-> 0]

CacheInit ==
    /\ registry = [sig \in Signatures |-> 0]
    /\ processes = <<>>
    /\ clients = [c \in Callers |-> NoClient]
    /\ registry_lock = 0

\* the weak reference p resolves: a strong reference to its handle is held
IsLive(p) == p # 0 /\ processes[p].strong > 0

\* the processes bound to sig that are alive
Alive(sig) ==
    {p \in 1..Len(processes) : processes[p].signature = sig /\ IsLive(p)}

\* a registry whose lock is never taken
CanLockRegistryAlways(c) == TRUE

\* the global lock of the registry is free
CanLockRegistry(c) == registry_lock = 0

\* a process handle whose lock is never taken
CanEnterAlways(c) == TRUE

\* the exclusive lock of the caller's handle is free
CanEnter(c) == processes[clients[c].handle].locked_by = 0

\* get_or_create(sig) is called
Request(c, sig) ==
    /\ clients[c].pc = "idle"
    /\ clients' = [clients EXCEPT ![c] = [NoClient EXCEPT !.pc = "waiting",
                                                         !.signature = sig]]
    /\ UNCHANGED <<deepobs_vars, sigopt, stats, registry, processes, registry_lock>>

\* ... takes the lock of the registry
LockRegistry(c) ==
    /\ clients[c].pc = "waiting"
    /\ CanLockRegistry(c)
    /\ registry_lock' = c
    /\ clients' = [clients EXCEPT ![c].pc = "lookup"]
    /\ UNCHANGED <<deepobs_vars, sigopt, stats, registry, processes>>

\* ... looks the signature up: a live handle gives a new strong reference to
\* it, an entry that is missing or does not resolve any more gives none
Lookup(c) ==
    /\ clients[c].pc = "lookup"
    /\ LET p == registry[clients[c].signature]
       IN  IF IsLive(p)
           THEN /\ processes' = [processes EXCEPT ![p].strong = @ + 1]
                /\ clients' = [clients EXCEPT ![c].pc = "unlock",
                                              ![c].handle = p]
           ELSE /\ clients' = [clients EXCEPT ![c].pc = "spawn"]
                /\ UNCHANGED processes
    /\ UNCHANGED <<deepobs_vars, sigopt, stats, registry, registry_lock>>

\* ... spawns a process bound to the signature and stores the weak reference
\* to its handle under the signature
SpawnAndInsert(c) ==
    /\ clients[c].pc = "spawn"
    /\ Len(processes) < MaxProcesses
    /\ processes' = Append(processes, [signature |-> clients[c].signature,
                                       strong |-> 1, locked_by |-> 0])
    /\ registry' = [registry EXCEPT ![clients[c].signature] = Len(processes) + 1]
    /\ clients' = [clients EXCEPT ![c].pc = "unlock",
                                  ![c].handle = Len(processes) + 1]
    /\ UNCHANGED <<deepobs_vars, sigopt, stats, registry_lock>>

\* ... and returns the strong reference, the lock of the registry released
UnlockRegistry(c) ==
    /\ clients[c].pc = "unlock"
    /\ registry_lock' = IF registry_lock = c THEN 0 ELSE registry_lock
    /\ clients' = [clients EXCEPT ![c].pc = "holding"]
    /\ UNCHANGED <<deepobs_vars, sigopt, stats, registry, processes>>

\* an evaluate call on the handle begins: the lock of the handle is taken for
\* the whole of the call
EnterEvaluate(c) ==
    /\ clients[c].pc = "holding"
    /\ CanEnter(c)
    /\ processes' = [processes EXCEPT ![clients[c].handle].locked_by = c]
    /\ clients' = [clients EXCEPT ![c].pc = "inside"]
    /\ UNCHANGED <<deepobs_vars, sigopt, stats, registry, registry_lock>>

\* ... and ends
LeaveEvaluate(c) ==
    /\ clients[c].pc = "inside"
    /\ processes' = [processes EXCEPT ![clients[c].handle].locked_by =
                         IF @ = c THEN 0 ELSE @]
    /\ clients' = [clients EXCEPT ![c].pc = "holding"]
    /\ UNCHANGED <<deepobs_vars, sigopt, stats, registry, registry_lock>>

\* the strong reference is dropped; with the last one the process ends.  The
\* entry of the registry stays.
Release(c) ==
    /\ clients[c].pc = "holding"
    /\ processes' = [processes EXCEPT ![clients[c].handle].strong = @ - 1]
    /\ clients' = [clients EXCEPT ![c] = NoClient]
    /\ UNCHANGED <<deepobs_vars, sigopt, stats, registry, registry_lock>>

---------------------------------------------------------------------------
(* The sigopt problem, sigopt.rs.  An f64 is held in tenths, as for the    *)
(* continuous values above; a result of NaN is told apart from the finite  *)
(* values.                                                                 *)

\* the calls of evaluate made on one evaluator
MaxCalls == 3

Some(v) == [some |-> TRUE, v |-> v]

None == [some |-> FALSE, v |-> 0]

Finite(t) == [nan |-> FALSE, tenths |-> t]

NaN == [nan |-> TRUE, tenths |-> 0]

\* f64::floor and f64::ceil of t/10, as whole numbers
Floor(t) == t \div 10

Ceil(t) == -((-t) \div 10)

RECURSIVE SumOf(_)
SumOf(xs) == IF xs = <<>> THEN 0 ELSE Head(xs) + SumOf(Tail(xs))

\* two of the variants of enum Name
SigoptNames == {"Ackley", "Hartmann3"}

\* The test functions of mod functions, which to_test_function returns: the
\* default dimension, the dimensions bounds() accepts, the bound of each
\* dimension and the value at a point.  The first takes any dimension, the
\* second three dimensions only; the third bound of the first, (0.2, 0.8),
\* holds no whole number.
Functions ==
    [Ackley |-> [default_dimension |-> 2, dims |-> {1, 2, 3},
                 bounds |-> << <<-15, 25>>, <<-15, 25>>, <<2, 8>> >>,
                 offset |-> 4],
     Hartmann3 |-> [default_dimension |-> 3, dims |-> {3},
                    bounds |-> << <<0, 10>>, <<2, 28>>, <<-37, 30>> >>,
                    offset |-> -33]]

\* Name::to_test_function, sigopt.rs:362-427
to_test_function(name) == Functions[name]

\* TestFunction::bounds(dim)
TestFunctionBounds(test_function, dim) ==
    IF dim \in test_function.dims
    THEN Ok([i \in 1..dim |-> test_function.bounds[i]])
    ELSE Err("InvalidInput")

\* TestFunction::evaluate(xs)
TestFunctionEvaluate(test_function, xs) == test_function.offset + SumOf(xs)

NoFactory == [tag |-> "none", name |-> "-", dim |-> 0, res |-> None, int |-> <<>>]

\* SigoptProblemRecipe::create_factory, sigopt.rs:54-64
sigopt_create_factory(rcp) ==
    LET test_function == to_test_function(rcp.name)
    IN  [tag |-> "Ok", name |-> rcp.name,
         dim |-> IF rcp.dim.some THEN rcp.dim.v
                 ELSE test_function.default_dimension,
         res |-> rcp.res, int |-> rcp.int]

\* format!("{:?}", self.int)
RECURSIVE DebugList(_)
DebugList(list) ==
    IF list = <<>> THEN <<>>
    ELSE IF Len(list) = 1 THEN NatToString(list[1])
    ELSE NatToString(list[1]) \o <<", ">> \o DebugList(Tail(list))

\* the name of the problem, sigopt.rs:81-88
ProblemName(factory) ==
    <<"sigopt/evalset/", factory.name, "(dim=">> \o NatToString(factory.dim)
    \o (IF factory.res.some
        THEN <<", res=">> \o F64ToString(factory.res.v) ELSE <<>>)
    \o (IF factory.int # <<>>
        THEN <<", int=", "[">> \o DebugList(factory.int) \o <<"]">> ELSE <<>>)
    \o <<")">>

\* the bounds of a discrete parameter, cut towards zero
DiscreteBoundsTruncated(low, high) ==
    << IF low < 0 THEN Ceil(low) ELSE Floor(low),
       IF high < 0 THEN Ceil(high) ELSE Floor(high) >>

\* low.ceil() as i64, high.floor() as i64, sigopt.rs:106-107
DiscreteBounds(low, high) == <<Ceil(low), Floor(high)>>

\* the parameter declared for the bound (low, high) of index i,
\* sigopt.rs:104-111; a discrete range is in whole numbers, a continuous
\* one in tenths
Param(factory, i, low, high) ==
    IF i \in Range(factory.int)
    THEN [name |-> <<"p">> \o NatToString(i), kind |-> "discrete",
          low |-> DiscreteBounds(low, high)[1],
          high |-> DiscreteBounds(low, high)[2]]
    ELSE [name |-> <<"p">> \o NatToString(i), kind |-> "continuous",
          low |-> low, high |-> high]

NoSpec == [tag |-> "none", kind |-> "-", name |-> <<>>, params |-> <<>>,
           values |-> <<>>]

\* ProblemSpecBuilder::finish: a range that is empty is not accepted
Finish(name, params, values) ==
    IF \E k \in 1..Len(params) : params[k].low >= params[k].high
    THEN [NoSpec EXCEPT !.tag = "Err", !.kind = "InvalidInput"]
    ELSE [tag |-> "Ok", kind |-> "-", name |-> name, params |-> params,
          values |-> values]

\* SigoptProblemFactory::specification, sigopt.rs:78-115
sigopt_specification(factory) ==
    LET test_function == to_test_function(factory.name)
        bounds == TestFunctionBounds(test_function, factory.dim)
    IN  IF bounds.tag # "Ok"
        THEN [NoSpec EXCEPT !.tag = "Err", !.kind = bounds.kind]
        ELSE Finish(ProblemName(factory),
                    [k \in 1..Len(bounds.value) |->
                        Param(factory, k - 1, bounds.value[k][1],
                              bounds.value[k][2])],
                    <<"Objective Value">>)

NoSigoptProblem == [tag |-> "none", name |-> "-", res |-> None]

\* SigoptProblemFactory::create_problem, sigopt.rs:117-122
sigopt_create_problem(factory) ==
    [tag |-> "Ok", name |-> factory.name, res |-> factory.res]

NoSigoptEvaluator ==
    [tag |-> "none", res |-> None, test_function |-> "-", params |-> <<>>]

\* SigoptProblem::create_evaluator, sigopt.rs:134-140; the test function
\* is held by its name
sigopt_create_evaluator(prob, params) ==
    [tag |-> "Ok", res |-> prob.res, test_function |-> prob.name,
     params |-> params]

SigoptOk(step, values) ==
    [tag |-> "Ok", kind |-> "-", step |-> step, values |-> values]

SigoptErr(kind) == [tag |-> "Err", kind |-> kind, step |-> 0, values |-> <<>>]

\* (value * res).floor() / res, sigopt.rs:156, for res of 0, 0.5, 1 and 2
Quantize(value, res) ==
    IF res = 0 THEN NaN
    ELSE Finite((((value * res) \div 100) * 100) \div res)

\* sigopt_evaluate without the assertion on next_step
sigopt_evaluate_any_step(ev, next_step) ==
    LET value == TestFunctionEvaluate(to_test_function(ev.test_function),
                                      ev.params)
    IN  SigoptOk(next_step, <<IF ev.res.some THEN Quantize(value, ev.res.v)
                              ELSE Finite(value)>>)

\* SigoptEvaluator::evaluate, sigopt.rs:150-161
sigopt_evaluate(ev, next_step) ==
    IF next_step # 1 THEN SigoptErr("Bug")
    ELSE LET value == TestFunctionEvaluate(to_test_function(ev.test_function),
                                           ev.params)
         IN  SigoptOk(1, <<IF ev.res.some THEN Quantize(value, ev.res.v)
                           ELSE Finite(value)>>)

NoSigopt ==
    [recipe |-> [name |-> "-", dim |-> None, res |-> None, int |-> <<>>],
     factory |-> NoFactory, spec |-> NoSpec, problem |-> NoSigoptProblem,
     evaluator |-> NoSigoptEvaluator, calls |-> <<>>]

SigoptCreateFactory ==
    /\ sigopt.factory.tag = "none"
    /\ sigopt' = [sigopt EXCEPT !.factory = sigopt_create_factory(sigopt.recipe)]
    /\ UNCHANGED <<deepobs_vars, cache_vars, stats>>

SigoptSpecification ==
    /\ sigopt.factory.tag = "Ok"
    /\ sigopt.spec.tag = "none"
    /\ sigopt' = [sigopt EXCEPT !.spec = sigopt_specification(sigopt.factory)]
    /\ UNCHANGED <<deepobs_vars, cache_vars, stats>>

SigoptCreateProblem ==
    /\ sigopt.factory.tag = "Ok"
    /\ sigopt.problem.tag = "none"
    /\ sigopt' = [sigopt EXCEPT !.problem = sigopt_create_problem(sigopt.factory)]
    /\ UNCHANGED <<deepobs_vars, cache_vars, stats>>

SigoptCreateEvaluator(params) ==
    /\ sigopt.problem.tag = "Ok"
    /\ sigopt.evaluator.tag = "none"
    /\ sigopt' = [sigopt EXCEPT !.evaluator =
                      sigopt_create_evaluator(sigopt.problem, params)]
    /\ UNCHANGED <<deepobs_vars, cache_vars, stats>>

\* evaluate(next_step) on the evaluator; the calls made are kept in order
SigoptEvaluate(next_step) ==
    /\ sigopt.evaluator.tag = "Ok"
    /\ Len(sigopt.calls) < MaxCalls
    /\ sigopt' = [sigopt EXCEPT !.calls =
                      Append(@, [next_step |-> next_step,
                                 result |-> sigopt_evaluate(sigopt.evaluator,
                                                            next_step)])]
    /\ UNCHANGED <<deepobs_vars, cache_vars, stats>>

---------------------------------------------------------------------------
(* The stats command, main.rs:127-139.  A study record is its position in   *)
(* the input, which tells two equal records apart, and the keys of the     *)
(* object that optimizer.as_json().as_object().unwrap() gives; the other   *)
(* fields of a record are not read by the loop.  `i` is the index of the   *)
(* code, counted from 0.                                                   *)

\* the study records of one input
MaxStudies == 3

NoStats == [pc |-> "idle", input |-> <<>>, studies |-> <<>>, i |-> 0]

StudyRecord(id, optimizer) == [id |-> id, optimizer |-> optimizer]

\* o.contains_key("random") || o.contains_key("random-normal")
IsRandom(study) ==
    "random" \in study.optimizer \/ "random-normal" \in study.optimizer

\* Vec::swap_remove(i): the last element takes the place of element i
swap_remove(studies, i) ==
    [k \in 1..(Len(studies) - 1) |->
        IF k = i + 1 THEN Last(studies) ELSE studies[k]]

\* one iteration that advances after a removal too
LoopBodyAlwaysAdvance(studies, i) ==
    IF IsRandom(studies[i + 1])
    THEN [studies |-> studies, i |-> i + 1]
    ELSE [studies |-> swap_remove(studies, i), i |-> i + 1]

\* one iteration of the loop, lines 131-136
LoopBody(studies, i) ==
    IF IsRandom(studies[i + 1])
    THEN [studies |-> studies, i |-> i + 1]
    ELSE [studies |-> swap_remove(studies, i), i |-> i]

\* lines 128-129: the records are read and i starts at 0
StatsRead(input) ==
    /\ stats.pc = "idle"
    /\ stats' = [pc |-> "loop", input |-> input, studies |-> input, i |-> 0]
    /\ UNCHANGED <<deepobs_vars, cache_vars, sigopt>>

\* line 130 with the condition true, then lines 131-136
StatsLoopStep ==
    /\ stats.pc = "loop"
    /\ stats.i < Len(stats.studies)
    /\ LET after == LoopBody(stats.studies, stats.i)
       IN  stats' = [stats EXCEPT !.studies = after.studies, !.i = after.i]
    /\ UNCHANGED <<deepobs_vars, cache_vars, sigopt>>

\* line 130 with the condition false: the loop is left for line 139
StatsLoopExit ==
    /\ stats.pc = "loop"
    /\ ~(stats.i < Len(stats.studies))
    /\ stats' = [stats EXCEPT !.pc = "done"]
    /\ UNCHANGED <<deepobs_vars, cache_vars, sigopt>>

---------------------------------------------------------------------------
(* The recipe, the problem and its evaluators *)

NoProblem ==
    [tag |-> "none", kind |-> "-", recipe |-> <<>>, params_domain |-> <<>>]

NoEvaluator == [tag |-> "none", problem |-> NoProblem, seed |-> 0, epochs |-> <<>>]

\* create_problem without its two assertions
create_problem_unchecked(rcp) ==
    [tag |-> "Ok", kind |-> "-", recipe |-> rcp, params_domain |-> params_domain]

\* DeepobsProblemRecipe::create_problem, deepobs.rs:135-147
create_problem(rcp) ==
    IF rcp.epochs = <<>>
    THEN [NoProblem EXCEPT !.tag = "Err", !.kind = "InvalidInput"]
    ELSE IF Last(rcp.epochs) = 0
    THEN [NoProblem EXCEPT !.tag = "Err", !.kind = "InvalidInput"]
    ELSE [tag |-> "Ok", kind |-> "-", recipe |-> rcp,
          params_domain |-> params_domain]

\* DeepobsProblem::specification, deepobs.rs:159-175; the expense is the last
\* entry of the declared schedule
specification(prob) ==
    [name |-> <<"deepobs/">> \o TestProblemToString(prob.recipe.problem),
     params_domain |-> prob.params_domain,
     values_domain |-> <<[min |-> 0, max |-> 10]>>,
     evaluation_expense |-> Last(prob.recipe.epochs),
     capabilities |-> {"Concurrent"}]

\* create_evaluator without the .rev()
create_evaluator_unreversed(prob, seed) ==
    [tag |-> "Ok", problem |-> prob, seed |-> seed, epochs |-> prob.recipe.epochs]

\* DeepobsProblem::create_evaluator, deepobs.rs:177-183
create_evaluator(prob, seed) ==
    [tag |-> "Ok", problem |-> prob, seed |-> seed,
     epochs |-> Reverse(prob.recipe.epochs)]

\* the recipe is given; nothing is built yet.  ids names the evaluators the
\* problem will be asked for.
DeepobsInit(ids, problems, schedules, trials) ==
    /\ recipe \in [problem : problems, data_dir : {<<"/data">>}, epochs : schedules]
    /\ trial \in trials
    /\ problem = NoProblem
    /\ evaluators = [e \in ids |-> NoEvaluator]
    /\ calls = [e \in ids |-> NoCall]
    /\ scratch = {}

InitOf(ids, problems, schedules, trials) ==
    /\ DeepobsInit(ids, problems, schedules, trials)
    /\ CacheInit
    /\ sigopt = NoSigopt
    /\ stats = NoStats

CreateProblemStep ==
    /\ problem.tag = "none"
    /\ problem' = create_problem(recipe)
    /\ UNCHANGED <<recipe, trial, evaluators, calls, scratch, cache_vars, sigopt, stats>>

CreateEvaluatorStep(e, seed) ==
    /\ problem.tag = "Ok"
    /\ e \in DOMAIN evaluators
    /\ evaluators[e].tag = "none"
    /\ evaluators' = [evaluators EXCEPT ![e] = create_evaluator(problem, seed)]
    /\ UNCHANGED <<recipe, trial, problem, calls, scratch, cache_vars, sigopt, stats>>

\* tempdir(), deepobs.rs:224: a directory that did not exist is created
tempdir(dirs, output_dir) == dirs \cup {output_dir}

\* the TempDir dropped without removing its directory
DropTempDirKept(dirs, output_dir) == dirs

\* the drop of the TempDir: of `output_dir` where evaluate returns early
\* (deepobs.rs:226, 272, 273), of get_score's `dir`, to which evaluate has
\* moved it (deepobs.rs:277), where get_score returns.  The directory and
\* all that is below it are removed.
DropTempDir(dirs, output_dir) == dirs \ {output_dir}

\* what the environment gives to one call of `kind`
OutcomeOf(kind) ==
    Outcome(kind, IF kind \in {"exit_ok", "exit_failure"}
                  THEN trial.written ELSE <<>>)

\* EvaluateStep that puts the popped entries back when the call fails
EvaluateStepRollback(e, budget, output_dir, kind) ==
    /\ e \in DOMAIN evaluators
    /\ evaluators[e].tag = "Ok"
    /\ calls[e].tag # "running"
    /\ output_dir \notin scratch
    /\ LET c == EvaluateCall(evaluators[e], trial.params, budget, output_dir,
                             OutcomeOf(kind))
       IN  /\ calls' = [calls EXCEPT ![e] = c]
           /\ evaluators' = [evaluators EXCEPT ![e].epochs =
                                 IF c.result.tag = "Ok" THEN c.after ELSE c.before]
    /\ UNCHANGED <<recipe, trial, problem, scratch, cache_vars, sigopt, stats>>

\* EvaluateStep on evaluators that share one vector of epochs
EvaluateStepOnShared(e, budget, output_dir, kind) ==
    /\ e \in DOMAIN evaluators
    /\ evaluators[e].tag = "Ok"
    /\ calls[e].tag # "running"
    /\ output_dir \notin scratch
    /\ LET c == EvaluateCall(evaluators[e], trial.params, budget, output_dir,
                             OutcomeOf(kind))
       IN  /\ calls' = [calls EXCEPT ![e] = c]
           /\ evaluators' = [f \in DOMAIN evaluators |->
                                 IF evaluators[f].tag = "Ok"
                                 THEN [evaluators[f] EXCEPT !.epochs = c.after]
                                 ELSE evaluators[f]]
    /\ UNCHANGED <<recipe, trial, problem, scratch, cache_vars, sigopt, stats>>

\* EvaluateStep that pops from a copy of self.epochs: the evaluator keeps
\* the schedule it had
EvaluateStepOnCopy(e, budget, output_dir, kind) ==
    /\ e \in DOMAIN evaluators
    /\ evaluators[e].tag = "Ok"
    /\ calls[e].tag # "running"
    /\ output_dir \notin scratch
    /\ calls' = [calls EXCEPT ![e] =
                     EvaluateCall(evaluators[e], trial.params, budget,
                                  output_dir, OutcomeOf(kind))]
    /\ UNCHANGED <<recipe, trial, problem, evaluators, scratch, cache_vars, sigopt, stats>>

\* evaluate(&trial.params, &mut budget) on evaluator e, in an environment
\* that hands out output_dir and in which the call fares as `kind` says
EvaluateStep(e, budget, output_dir, kind) ==
    /\ e \in DOMAIN evaluators
    /\ evaluators[e].tag = "Ok"
    /\ calls[e].tag # "running"
    /\ output_dir \notin scratch
    /\ LET c == EvaluateCall(evaluators[e], trial.params, budget, output_dir,
                             OutcomeOf(kind))
       IN  /\ calls' = [calls EXCEPT ![e] = c]
           /\ evaluators' = [evaluators EXCEPT ![e].epochs = c.after]
           /\ scratch' = IF c.output_dir = <<>> THEN scratch
                         ELSE DropTempDir(tempdir(scratch, output_dir),
                                          output_dir)
    /\ UNCHANGED <<recipe, trial, problem, cache_vars, sigopt, stats>>

\* The same call in two steps, for the calls of several evaluators that run
\* at the same time: from its start to the point where it is about to
\* return, its scratch directory allocated ...
EvaluateEnter(e, budget, output_dir, kind) ==
    /\ e \in DOMAIN evaluators
    /\ evaluators[e].tag = "Ok"
    /\ calls[e].tag # "running"
    /\ output_dir \notin scratch
    /\ LET c == EvaluateCall(evaluators[e], trial.params, budget, output_dir,
                             OutcomeOf(kind))
       IN  /\ calls' = [calls EXCEPT ![e] = [c EXCEPT !.tag = "running"]]
           /\ evaluators' = [evaluators EXCEPT ![e].epochs = c.after]
           /\ scratch' = IF c.output_dir = <<>> THEN scratch
                         ELSE tempdir(scratch, output_dir)
    /\ UNCHANGED <<recipe, trial, problem, cache_vars, sigopt, stats>>

\* ... and its return, at which the TempDir has been dropped
EvaluateReturn(e) ==
    /\ e \in DOMAIN evaluators
    /\ calls[e].tag = "running"
    /\ calls' = [calls EXCEPT ![e].tag = "done"]
    /\ scratch' = IF calls[e].output_dir = <<>> THEN scratch
                  ELSE DropTempDir(scratch, calls[e].output_dir)
    /\ UNCHANGED <<recipe, trial, problem, evaluators, cache_vars, sigopt, stats>>

---------------------------------------------------------------------------
(* Inputs *)

\* the declared schedules: every sequence of costs up to the bounds, and the
\* two schedules the specification names
Schedules == SeqsUpTo(0..MaxEpoch, MaxLen) \cup {<<10, 50, 100>>, <<7>>}

Budgets == (0..MaxBudget) \cup {30, 40, 200}

\* rand::random() of a u32: a one-digit and a ten-digit seed
Seeds == {0, 2147483647}

\* tempdir(): a directory that did not exist
TempDirs == {<<"/tmp/.tmpA">>, <<"/tmp/.tmpB">>}

\* values of every shape the match of deepobs.rs:247-260 tells apart
ValueChoices ==
    { Continuous(9), Continuous(-15), Discrete(7), Categorical(0), Categorical(8),
      ConditionalNone,
      ConditionalSome(Continuous(9)), ConditionalSome(Discrete(-3)),
      ConditionalSome(Categorical(1)), ConditionalSome(ConditionalNone) }

\* the configurations handed to evaluate: the natural ones, the natural ones
\* with one value replaced (the loop of deepobs.rs:235-267 treats every
\* position on its own), and the natural ones cut short
Configurations ==
    LET natural == {NaturalParams[o] : o \in 0..Len(OPTIMIZERS) - 1}
    IN  natural
        \cup {[p EXCEPT ![i] = v] : p \in natural, i \in 1..Len(params_domain),
                                   v \in ValueChoices}
        \cup {SubSeq(p, 1, n) : p \in natural, n \in 0..Len(params_domain)}

\* what the external process has written
JsonContents == {<<1, 2>>, <<2, 1>>, <<>>}

Leaves == {JsonFile(a) : a \in JsonContents} \cup {BadJsonFile, OtherFile}

\* entries below the scratch directory, directories included
MaxEntries == 4
\* directory levels below the scratch directory
MaxDepth == 2

RECURSIVE Listings(_, _), EntriesUpTo(_, _)
\* the directories with at most n entries below them, at most d levels deep
Listings(d, n) ==
    IF n = 0 THEN {<<>>}
    ELSE {<<>>} \cup UNION {{<<e>> \o rest : e \in EntriesUpTo(d, k),
                                           rest \in Listings(d, n - k)} :
                            k \in 1..n}

\* the entries that, with all that is below them, count at most k entries
EntriesUpTo(d, k) ==
    Leaves \cup (IF d > 0 THEN {Dir(c) : c \in Listings(d - 1, k - 1)} ELSE {})

Trees == Listings(MaxDepth, MaxEntries)

\* two trees: nothing written, and a result one level down
TwoTrees == {<<>>, <<Dir(<<JsonFile(<<1, 2>>)>>)>>}

\* adam, a first value that is not categorical, an index past the optimizers
ModeChoices ==
    { NaturalParams[2],
      [NaturalParams[2] EXCEPT ![1] = Continuous(9)],
      [NaturalParams[2] EXCEPT ![1] = Categorical(8)] }

Trials(configurations, trees) == [params : configurations, written : trees]

---------------------------------------------------------------------------
(* Spec: one evaluator, every declared schedule, every budget *)

Init ==
    InitOf({1}, {Svhn_3c3d}, Schedules, Trials({NaturalParams[2]}, TwoTrees))

CreateProblem == CreateProblemStep

CreateEvaluator == \E e \in DOMAIN evaluators : CreateEvaluatorStep(e, 0)

Evaluate ==
    \E e \in DOMAIN evaluators, amount \in Budgets, kind \in OutcomeKinds :
        EvaluateStep(e, [amount |-> amount, consumption |-> 9],
                     <<"/tmp/.tmpA">>, kind)

Next == CreateProblem \/ CreateEvaluator \/ Evaluate

Spec == Init /\ [][Next]_vars

---------------------------------------------------------------------------
(* SpecScan: one schedule, everything the external process can leave in    *)
(* the scratch directory                                                   *)

InitScan ==
    InitOf({1}, {Svhn_3c3d}, {<<1, 2>>}, Trials({NaturalParams[2]}, Trees))

CreateProblemScan == CreateProblemStep

CreateEvaluatorScan == \E e \in DOMAIN evaluators : CreateEvaluatorStep(e, 0)

EvaluateScan ==
    \E e \in DOMAIN evaluators, kind \in OutcomeKinds :
        EvaluateStep(e, [amount |-> 1, consumption |-> 9], <<"/tmp/.tmpA">>, kind)

NextScan == CreateProblemScan \/ CreateEvaluatorScan \/ EvaluateScan

SpecScan == InitScan /\ [][NextScan]_vars

---------------------------------------------------------------------------
(* SpecArgs: one schedule, every configuration, every seed and directory   *)

InitArgs ==
    InitOf({1}, {Svhn_3c3d}, {<<1, 2>>},
           Trials(Configurations, {<<JsonFile(<<1, 2>>)>>}))

CreateProblemArgs == CreateProblemStep

CreateEvaluatorArgs ==
    \E e \in DOMAIN evaluators, seed \in Seeds : CreateEvaluatorStep(e, seed)

EvaluateArgs ==
    \E e \in DOMAIN evaluators, amount \in {1, 2}, dir \in TempDirs :
        EvaluateStep(e, [amount |-> amount, consumption |-> 9], dir, "exit_ok")

NextArgs == CreateProblemArgs \/ CreateEvaluatorArgs \/ EvaluateArgs

SpecArgs == InitArgs /\ [][NextArgs]_vars

---------------------------------------------------------------------------
(* SpecScratch: two evaluators whose calls run at the same time, on every  *)
(* exit path of a call                                                     *)

InitScratch ==
    InitOf({1, 2}, {Svhn_3c3d}, {<<1, 2>>}, Trials(ModeChoices, TwoTrees))

CreateProblemScratch == CreateProblemStep

CreateEvaluatorScratch ==
    \E e \in DOMAIN evaluators : CreateEvaluatorStep(e, 0)

EvaluateEnterScratch ==
    \E e \in DOMAIN evaluators, dir \in TempDirs, kind \in OutcomeKinds :
        EvaluateEnter(e, [amount |-> 1, consumption |-> 9], dir, kind)

EvaluateReturnScratch == \E e \in DOMAIN evaluators : EvaluateReturn(e)

NextScratch ==
    \/ CreateProblemScratch
    \/ CreateEvaluatorScratch
    \/ EvaluateEnterScratch
    \/ EvaluateReturnScratch

SpecScratch == InitScratch /\ [][NextScratch]_vars

---------------------------------------------------------------------------
(* SpecCache: three callers of the shared problem cache, two signatures    *)

InitCache ==
    InitOf({1}, {Svhn_3c3d}, {<<1, 2>>}, Trials({NaturalParams[2]}, {<<>>}))

RequestCache == \E c \in Callers, sig \in Signatures : Request(c, sig)

LockRegistryCache == \E c \in Callers : LockRegistry(c)

LookupCache == \E c \in Callers : Lookup(c)

SpawnAndInsertCache == \E c \in Callers : SpawnAndInsert(c)

UnlockRegistryCache == \E c \in Callers : UnlockRegistry(c)

EnterEvaluateCache == \E c \in Callers : EnterEvaluate(c)

LeaveEvaluateCache == \E c \in Callers : LeaveEvaluate(c)

ReleaseCache == \E c \in Callers : Release(c)

NextCache ==
    \/ RequestCache
    \/ LockRegistryCache
    \/ LookupCache
    \/ SpawnAndInsertCache
    \/ UnlockRegistryCache
    \/ EnterEvaluateCache
    \/ LeaveEvaluateCache
    \/ ReleaseCache

SpecCache == InitCache /\ [][NextCache]_vars

---------------------------------------------------------------------------
(* SpecFrame: two evaluators of one problem, created and called in any     *)
(* order                                                                   *)

InitFrame ==
    InitOf({1, 2}, {Svhn_3c3d}, {<<1, 2, 3>>, <<10, 50, 100>>, <<2, 1>>},
           Trials(ModeChoices, {<<JsonFile(<<1, 2>>)>>}))

CreateProblemFrame == CreateProblemStep

CreateEvaluatorFrame == \E e \in DOMAIN evaluators : CreateEvaluatorStep(e, 0)

EvaluateFrame ==
    \E e \in DOMAIN evaluators, amount \in {2, 40, 200},
       kind \in OutcomeKinds :
        EvaluateStep(e, [amount |-> amount, consumption |-> 9],
                     <<"/tmp/.tmpA">>, kind)

NextFrame == CreateProblemFrame \/ CreateEvaluatorFrame \/ EvaluateFrame

SpecFrame == InitFrame /\ [][NextFrame]_vars

---------------------------------------------------------------------------
(* SpecSigopt: every recipe of the sigopt problem over two test functions  *)

\* --res absent, 0, 0.5, 1 and 2
ResChoices == {None, Some(0), Some(5), Some(10), Some(20)}

\* --dim absent, 1, 2 and 3
DimChoices == {None, Some(1), Some(2), Some(3)}

\* --int: none, one index, two indices, an index twice, an index past the
\* dimension
IntChoices == {<<>>, <<0>>, <<2>>, <<0, 1>>, <<1, 1>>, <<5>>}

\* the points handed to create_evaluator
PointChoices == {<<3, -14>>, <<25, 0, 7>>}

InitSigopt ==
    /\ DeepobsInit({1}, {Svhn_3c3d}, {<<1, 2>>},
                   Trials({NaturalParams[2]}, {<<>>}))
    /\ CacheInit
    /\ stats = NoStats
    /\ \E rcp \in [name : SigoptNames, dim : DimChoices, res : ResChoices,
                    int : IntChoices] :
          sigopt = [NoSigopt EXCEPT !.recipe = rcp]

SigoptCreateEvaluatorAny == \E params \in PointChoices : SigoptCreateEvaluator(params)

SigoptEvaluateAny == \E next_step \in 0..2 : SigoptEvaluate(next_step)

NextSigopt ==
    \/ SigoptCreateFactory
    \/ SigoptSpecification
    \/ SigoptCreateProblem
    \/ SigoptCreateEvaluatorAny
    \/ SigoptEvaluateAny

SpecSigopt == InitSigopt /\ [][NextSigopt]_vars

---------------------------------------------------------------------------
(* SpecStats: every input of the stats command up to MaxStudies records;   *)
(* the command is one thread that runs until it returns, so a step that is *)
(* possible is taken                                                       *)

\* the keys of the optimizer object of a record
OptimizerChoices ==
    {{"random"}, {"random-normal"}, {"tpe"}, {"random", "random-normal"}, {}}

StudyLists ==
    {[k \in DOMAIN optimizers |-> StudyRecord(k, optimizers[k])] :
        optimizers \in SeqsUpTo(OptimizerChoices, MaxStudies)}

InitStats ==
    InitOf({1}, {Svhn_3c3d}, {<<1, 2>>}, Trials({NaturalParams[2]}, {<<>>}))

StatsReadAny == \E input \in StudyLists : StatsRead(input)

NextStats == StatsReadAny \/ StatsLoopStep \/ StatsLoopExit

SpecStats == InitStats /\ [][NextStats]_vars /\ WF_vars(NextStats)

---------------------------------------------------------------------------
(* SpecDisplay: every test problem, one schedule                           *)

InitDisplay ==
    InitOf({1}, TestProblem, {<<1, 2>>}, Trials({NaturalParams[2]}, TwoTrees))

CreateProblemDisplay == CreateProblemStep

CreateEvaluatorDisplay ==
    \E e \in DOMAIN evaluators : CreateEvaluatorStep(e, 0)

EvaluateDisplay ==
    \E e \in DOMAIN evaluators, amount \in {1, 2}, kind \in OutcomeKinds :
        EvaluateStep(e, [amount |-> amount, consumption |-> 9],
                     <<"/tmp/.tmpA">>, kind)

NextDisplay == CreateProblemDisplay \/ CreateEvaluatorDisplay \/ EvaluateDisplay

SpecDisplay == InitDisplay /\ [][NextDisplay]_vars

---------------------------------------------------------------------------
(* Properties of the fidelity selection and of the budget, under Spec *)

\* the argument that follows fixed flag `name` on the command line of call c
ArgAfter(c, name) ==
    c.args[1 + CHOOSE i \in 1..Len(c.args) - 1 : c.args[i] = <<name>>]

\* the live entries of call c that are adequate for its requested budget
Adequate(c) == {s \in Range(c.before) : s >= c.budget_in.amount}

\* C1: for a schedule declared ascending, a call whose live schedule holds an
\* entry >= the requested budget selects the smallest such entry and passes
\* it as --num_epochs; a fresh evaluator's live schedule is the whole declared
\* schedule; [10,50,100] gives 50 for the budgets 30 and 40, [7] always gives 7.
C1_SelectsSmallestAdequate ==
    \A e \in DOMAIN calls :
        LET c == calls[e]
        IN  /\ (evaluators[e].tag = "Ok" /\ c.tag = "none") =>
                  /\ Len(evaluators[e].epochs) = Len(recipe.epochs)
                  /\ \A i \in 1..Len(recipe.epochs) :
                        evaluators[e].epochs[Len(recipe.epochs) + 1 - i]
                            = recipe.epochs[i]
            /\ (c.tag = "done" /\ IsAscending(recipe.epochs)) =>
                  /\ Adequate(c) # {} =>
                        /\ c.selected
                        /\ c.epochs = Min(Adequate(c))
                        /\ c.built =>
                              ArgAfter(c, "--num_epochs") = NatToString(c.epochs)
                  /\ ( /\ recipe.epochs = <<10, 50, 100>>
                       /\ c.before = <<100, 50, 10>>
                       /\ c.budget_in.amount \in {30, 40} ) => c.epochs = 50
                  /\ recipe.epochs = <<7>> => c.epochs = 7

C1_Witness ==
    \E e \in DOMAIN calls :
        /\ calls[e].tag = "done"
        /\ recipe.epochs = <<10, 50, 100>>
        /\ calls[e].before = <<100, 50, 10>>
        /\ calls[e].budget_in.amount = 30
        /\ calls[e].after = <<100, 50>>
        /\ calls[e].epochs = 50
        /\ calls[e].built

\* C2 as stated: when no entry of an ascending schedule is >= the requested
\* budget, the call selects the overall minimum entry of the schedule.
C2_FallsBackToMinimum ==
    \A e \in DOMAIN calls :
        LET c == calls[e]
        IN  ( /\ c.tag = "done"
              /\ IsAscending(recipe.epochs)
              /\ \A s \in Range(recipe.epochs) : s < c.budget_in.amount )
            => c.epochs = Min(Range(recipe.epochs))

\* C2, amended: when no entry of the schedule is >= the requested budget, the
\* call selects the last declared entry, which is the largest entry of an
\* ascending schedule, and that entry alone stays live; [10,50,100] gives 100
\* for the budget 200.
C2_FallsBackToLastDeclared ==
    \A e \in DOMAIN calls :
        LET c == calls[e]
        IN  ( /\ c.tag = "done"
              /\ \A s \in Range(c.before) : s < c.budget_in.amount )
            => /\ c.selected
               /\ c.epochs = Last(recipe.epochs)
               /\ c.after = <<Last(recipe.epochs)>>
               /\ IsAscending(recipe.epochs) =>
                     c.epochs = Max(Range(recipe.epochs))
               /\ recipe.epochs = <<10, 50, 100>> => c.epochs = 100

C2_Witness ==
    \E e \in DOMAIN calls :
        /\ calls[e].tag = "done"
        /\ recipe.epochs = <<10, 50, 100>>
        /\ calls[e].before = <<100, 50, 10>>
        /\ calls[e].budget_in.amount = 200
        /\ calls[e].epochs = 100

IsPrefix(s, t) == Len(s) <= Len(t) /\ s = SubSeq(t, 1, Len(s))

\* C3: from one call of an evaluator to its next, the live schedule after is
\* a prefix (so a subset) of the live schedule before, an entry that is not
\* live does not become live, and when the requested budget does not increase
\* the selected cost does not increase.
C3_ShrinksAndDescends ==
    [][\A e \in DOMAIN calls :
          /\ evaluators[e].tag = "Ok" =>
                /\ IsPrefix(evaluators'[e].epochs, evaluators[e].epochs)
                /\ Range(evaluators'[e].epochs) \subseteq Range(evaluators[e].epochs)
                /\ \A s \in Range(recipe.epochs) :
                      s \notin Range(evaluators[e].epochs)
                          => s \notin Range(evaluators'[e].epochs)
          /\ calls'[e] # calls[e] =>
                /\ calls'[e].before = evaluators[e].epochs
                /\ calls'[e].after = evaluators'[e].epochs
          /\ ( /\ calls[e].tag = "done"
               /\ calls'[e].budget_in.amount <= calls[e].budget_in.amount )
             => /\ calls'[e].selected
                /\ calls'[e].epochs <= calls[e].epochs]_vars

\* a second call with a smaller budget, after a first call discarded 10
C3_Witness ==
    \E e \in DOMAIN calls :
        /\ calls[e].tag = "done"
        /\ recipe.epochs = <<10, 50, 100>>
        /\ calls[e].before = <<100, 50>>
        /\ calls[e].budget_in.amount = 0
        /\ calls[e].epochs = 50
        /\ evaluators[e].epochs = <<100, 50>>

\* C4: after a call whose external process exited with success,
\* budget.consumption is the selected cost, the value passed as --num_epochs,
\* whatever the requested amount and whatever the process wrote, also when
\* get_score fails.
C4_ConsumptionIsSelectedCost ==
    \A e \in DOMAIN calls :
        LET c == calls[e]
        IN  (c.tag = "done" /\ c.started /\ c.outcome = "exit_ok") =>
                /\ c.selected
                /\ c.budget.consumption = c.epochs
                /\ c.budget.consumption = Last(c.after)
                /\ ArgAfter(c, "--num_epochs") = NatToString(c.budget.consumption)

\* the process exited with success, nothing was found, and the selected cost
\* differs from the requested amount and from the consumption handed in
C4_Witness ==
    \E e \in DOMAIN calls :
        /\ calls[e].tag = "done"
        /\ calls[e].started
        /\ calls[e].outcome = "exit_ok"
        /\ calls[e].result.tag = "Err"
        /\ calls[e].budget.consumption = calls[e].epochs
        /\ calls[e].epochs # calls[e].budget_in.amount
        /\ calls[e].epochs # calls[e].budget_in.consumption

---------------------------------------------------------------------------
(* Properties of the result scanner, under SpecScan *)

RECURSIVE JsonPathsIn(_, _)
\* the paths of the entries with the json extension anywhere below dir
JsonPathsIn(dir, entries) ==
    UNION { IF entries[i].kind = "json" THEN {Append(dir, i)}
            ELSE IF entries[i].kind = "dir"
            THEN JsonPathsIn(Append(dir, i), entries[i].children)
            ELSE {} : i \in 1..Len(entries) }

RECURSIVE EntryAt(_, _)
\* the entry at a path
EntryAt(entries, path) ==
    IF Len(path) = 1 THEN entries[path[1]]
    ELSE EntryAt(entries[path[1]].children, Tail(path))

\* call c ran the external process to a successful exit and scanned its tree
Scanned(c) == c.tag = "done" /\ c.started /\ c.outcome = "exit_ok"

\* C5: whenever the scratch tree holds exactly one JSON result file, at any
\* depth and in any listing order, the call returns the last element of its
\* test_accuracies.
C5_FindsTheOnlyResultFile ==
    \A e \in DOMAIN calls :
        LET c == calls[e]
            json == JsonPathsIn(<<>>, c.tree)
        IN  (Scanned(c) /\ Cardinality(json) = 1) =>
                LET file == EntryAt(c.tree, CHOOSE path \in json : TRUE)
                IN  (file.parses /\ file.test_accuracies # <<>>) =>
                        c.result = Ok(<<Last(file.test_accuracies)>>)

\* C6: whenever the scratch tree holds no JSON result file, the call returns
\* the no-result error, never a score, and the error names the directory that
\* was handed to the scanner.
C6_NoResultNamesTheRoot ==
    \A e \in DOMAIN calls :
        LET c == calls[e]
        IN  (Scanned(c) /\ JsonPathsIn(<<>>, c.tree) = {}) =>
                /\ c.result.tag = "Err"
                /\ c.result.kind = "NoResult"
                /\ c.result.path = <<>>

\* C7: the first entry with the json extension that the scan reaches is the
\* last entry it examines and decides the outcome: the last element of its
\* test_accuracies is the score, and an empty sequence or an unreadable file
\* gives an error and no score.
C7_FirstJsonDecides ==
    \A e \in DOMAIN calls :
        LET c == calls[e]
            reached == {k \in 1..Len(c.examined) :
                           EntryAt(c.tree, c.examined[k]).kind = "json"}
        IN  (Scanned(c) /\ reached # {}) =>
                LET first == Min(reached)
                    file == EntryAt(c.tree, c.examined[first])
                IN  /\ first = Len(c.examined)
                    /\ (file.parses /\ file.test_accuracies # <<>>) =>
                          c.result =
                              Ok(<<file.test_accuracies[Len(file.test_accuracies)]>>)
                    /\ (~file.parses \/ file.test_accuracies = <<>>) =>
                          c.result.tag = "Err" /\ c.result.value = <<>>

\* a file that is skipped, the result file, and a second result file after it
C7_Witness ==
    \E e \in DOMAIN calls :
        /\ Scanned(calls[e])
        /\ calls[e].tree = <<OtherFile, JsonFile(<<1, 2>>), JsonFile(<<2, 1>>)>>
        /\ calls[e].examined = << <<1>>, <<2>> >>
        /\ calls[e].result = Ok(<<2>>)

---------------------------------------------------------------------------
(* Properties of the command line, under SpecArgs *)

\* a name of the form <mode>.<field>
IsNamespaced(name) == Len(name) = 3 /\ name[2] = "."

ModeOf(name) == <<name[1]>>

FieldOf(name) == <<name[3]>>

\* the optimizer a call with a command line has selected
SelectedMode(c) == OPTIMIZERS[c.params[1].v + 1]

\* the parameter is declared for the selected mode
IsActive(c, i) ==
    LET name == params_domain[i].name
    IN  IsNamespaced(name) => ModeOf(name) = SelectedMode(c)

\* the flag a declared parameter is given under
FlagOf(i) ==
    LET name == params_domain[i].name
    IN  <<"--">> \o (IF IsNamespaced(name) THEN FieldOf(name) ELSE name)

\* the flags call c has emitted for the parameter at position i
FlagsFor(c, i) == {k \in 1..Len(c.flags) : c.flags[k].index = i}

IndexOf(name) ==
    CHOOSE i \in 1..Len(params_domain) : params_domain[i].name = name

\* C8: a parameter <mode>.<field> of another mode than the selected one gives
\* no flag, and its --<field> is not on the command line unless an active
\* parameter has the same field; a parameter of the selected mode is emitted
\* as --<field>; with adam, adam.beta1 = 0.5 and momentum.momentum = 0.9 give
\* --beta1 0.5 and nothing else.
C8_OtherModesGiveNoFlag ==
    \A e \in DOMAIN calls :
        LET c == calls[e]
            beta1 == IndexOf(<<"adam", ".", "beta1">>)
            momentum == IndexOf(<<"momentum", ".", "momentum">>)
        IN  (c.tag = "done" /\ c.built) =>
            /\ \A i \in 2..Len(params_domain) :
                  IsNamespaced(params_domain[i].name) =>
                      IF IsActive(c, i)
                      THEN \A k \in FlagsFor(c, i) :
                              c.flags[k].flag
                                  = <<"--">> \o FieldOf(params_domain[i].name)
                      ELSE /\ FlagsFor(c, i) = {}
                           /\ (\A j \in 2..Len(params_domain) :
                                  IsActive(c, j) => FlagOf(j) # FlagOf(i))
                              => FlagOf(i) \notin Range(c.args)
            /\ ( /\ SelectedMode(c) = <<"adam">>
                 /\ Len(c.params) >= momentum
                 /\ c.params[beta1] = ConditionalSome(Continuous(5))
                 /\ c.params[momentum] = ConditionalSome(Continuous(9)) )
               => /\ FlagsFor(c, momentum) = {}
                  /\ \E k \in 1..Len(c.flags) :
                        /\ FlagsFor(c, beta1) = {k}
                        /\ c.flags[k].flag = <<"--", "beta1">>
                        /\ c.flags[k].value = <<"0", ".", "5">>
                        /\ c.args[10 + 2 * k - 1] = <<"--", "beta1">>
                        /\ c.args[10 + 2 * k] = <<"0", ".", "5">>
                  /\ <<"--", "momentum">> \notin Range(c.args)

C8_Witness ==
    \E e \in DOMAIN calls :
        LET c == calls[e]
        IN  /\ c.tag = "done"
            /\ c.built
            /\ SelectedMode(c) = <<"adam">>
            /\ Len(c.params) = Len(params_domain)
            /\ c.params[IndexOf(<<"adam", ".", "beta1">>)]
                   = ConditionalSome(Continuous(5))
            /\ c.params[IndexOf(<<"momentum", ".", "momentum">>)]
                   = ConditionalSome(Continuous(9))
            /\ <<"--", "beta1">> \in Range(c.args)

\* the value is of the kind the parameter at position i declares
Conforms(value, i) ==
    LET d == params_domain[i]
        kind == IF d.kind = "conditional" THEN d.inner ELSE d.kind
        tag == IF d.kind = "conditional" THEN value.inner.tag ELSE value.tag
    IN  /\ (d.kind = "conditional") = (value.tag = "Conditional")
        /\ \/ d.kind = "conditional" /\ tag = "None"
           \/ kind = "continuous" /\ tag = "Continuous"
           \/ kind = "discrete" /\ tag = "Discrete"
           \/ kind = "categorical" /\ tag = "Categorical"

IsAbsent(value) == value.tag = "Conditional" /\ value.inner.tag = "None"

\* C9: every declared parameter after the first that is active for the
\* selected mode and whose value is present gives exactly one flag, whatever
\* the kind of its value; only an absent Conditional gives none.
C9_EveryPresentValueIsEmitted ==
    \A e \in DOMAIN calls :
        LET c == calls[e]
        IN  (c.tag = "done" /\ c.built) =>
                \A i \in 2..Len(c.params) :
                    ( /\ IsActive(c, i)
                      /\ Conforms(c.params[i], i)
                      /\ ~IsAbsent(c.params[i]) )
                    => \E k \in 1..Len(c.flags) :
                          /\ FlagsFor(c, i) = {k}
                          /\ c.flags[k].flag = FlagOf(i)

\* C10: the command line is the selected mode, the problem name, --data_dir,
\* --output_dir with the scratch directory of the call, --random_seed,
\* --num_epochs with the selected cost, then the flags of the configuration
\* in the order of the parameter domain; each fixed flag is there once.
C10_ArgumentOrder ==
    \A e \in DOMAIN calls :
        LET c == calls[e]
        IN  (c.tag = "done" /\ c.built) =>
            /\ SubSeq(c.args, 1, 10)
                   = << SelectedMode(c),
                        TestProblemToString(recipe.problem),
                        <<"--data_dir">>, recipe.data_dir,
                        <<"--output_dir">>, c.output_dir,
                        <<"--random_seed">>, NatToString(evaluators[e].seed),
                        <<"--num_epochs">>, NatToString(Last(c.after)) >>
            /\ \A name \in {"--data_dir", "--output_dir", "--random_seed",
                           "--num_epochs"} :
                  Cardinality({i \in 1..Len(c.args) : c.args[i] = <<name>>}) = 1
            /\ Len(c.args) = 10 + 2 * Len(c.flags)
            /\ \A k \in 1..Len(c.flags) :
                  /\ c.args[10 + 2 * k - 1] = c.flags[k].flag
                  /\ c.args[10 + 2 * k] = c.flags[k].value
                  /\ c.flags[k].flag = FlagOf(c.flags[k].index)
                  /\ k > 1 => c.flags[k - 1].index < c.flags[k].index

\* a call with a ten-digit seed, the second scratch directory, the cost 2 and
\* the six flags of adam
C10_Witness ==
    \E e \in DOMAIN calls :
        LET c == calls[e]
        IN  /\ c.tag = "done"
            /\ c.built
            /\ c.params = NaturalParams[2]
            /\ SubSeq(c.args, 1, 10)
                   = << <<"adam">>,
                        <<"s", "v", "h", "n", "_", "3", "c", "3", "d">>,
                        <<"--data_dir">>, <<"/data">>,
                        <<"--output_dir">>, <<"/tmp/.tmpB">>,
                        <<"--random_seed">>,
                        <<"2", "1", "4", "7", "4", "8", "3", "6", "4", "7">>,
                        <<"--num_epochs">>, <<"2">> >>
            /\ SubSeq(c.args, 11, Len(c.args))
                   = << <<"--", "learning_rate">>, <<"0", ".", "5">>,
                        <<"--", "weight_decay">>, <<"0", ".", "5">>,
                        <<"--", "batch_size">>, <<"3", "2">>,
                        <<"--", "beta1">>, <<"0", ".", "5">>,
                        <<"--", "beta2">>, <<"0", ".", "5">>,
                        <<"--", "epsilon">>, <<"0", ".", "5">> >>


---------------------------------------------------------------------------
(* Properties of the construction of the problem, under Spec *)

\* C11: for an empty schedule and for a schedule whose final entry is zero,
\* create_problem returns the InvalidInput error, and then no evaluator is
\* ever built and no call of evaluate is ever made; so every call of evaluate
\* finds a live schedule to select from, declared with a non-zero final entry.
C11_RejectsEmptyAndZeroEnding ==
    /\ ( /\ problem.tag # "none"
         /\ (IF recipe.epochs = <<>> THEN TRUE ELSE Last(recipe.epochs) = 0) )
       => /\ problem.tag = "Err"
          /\ problem.kind = "InvalidInput"
          /\ \A e \in DOMAIN evaluators :
                /\ evaluators[e].tag = "none"
                /\ calls[e].tag = "none"
    /\ \A e \in DOMAIN calls :
          calls[e].tag # "none" =>
              /\ calls[e].before # <<>>
              /\ calls[e].selected
              /\ recipe.epochs # <<>>
              /\ Last(recipe.epochs) # 0

\* the schedule [1, 0] has been rejected
C11_Witness ==
    /\ recipe.epochs = <<1, 0>>
    /\ problem.tag = "Err"
    /\ problem.kind = "InvalidInput"

\* C12: every schedule held by a constructed problem is a non-empty ascending
\* sequence of positive costs: create_problem rejects a schedule that is not
\* ascending or that holds a zero at any position.
C12_RejectsEveryBadSchedule ==
    problem.tag = "Ok" =>
        /\ problem.recipe.epochs # <<>>
        /\ IsAscending(problem.recipe.epochs)
        /\ \A i \in 1..Len(problem.recipe.epochs) : problem.recipe.epochs[i] > 0


---------------------------------------------------------------------------
(* Properties of the failures of one call, under Spec *)

\* C13: when the external process of a call exits with a failure status, the
\* call returns an error and no score, nothing of the output directory is
\* examined, and the process has been started once; no call starts the
\* process more than once.
C13_FailureStatusIsFatal ==
    \A e \in DOMAIN calls :
        LET c == calls[e]
        IN  /\ c.spawned <= 1
            /\ c.started <=> c.spawned = 1
            /\ (c.tag = "done" /\ c.outcome = "exit_failure" /\ c.started) =>
                  /\ c.result.tag = "Err"
                  /\ c.result.kind = "Other"
                  /\ c.result.value = <<>>
                  /\ c.examined = <<>>
                  /\ c.spawned = 1

\* the process has exited with a failure status after writing a result file
C13_Witness ==
    \E e \in DOMAIN calls :
        /\ calls[e].tag = "done"
        /\ calls[e].outcome = "exit_failure"
        /\ calls[e].started
        /\ calls[e].tree = <<Dir(<<JsonFile(<<1, 2>>)>>)>>
        /\ calls[e].result.tag = "Err"


---------------------------------------------------------------------------
(* Properties of the scratch directory, under SpecScratch *)

\* the evaluators whose call is running with a scratch directory allocated
Holding == {e \in DOMAIN calls : calls[e].tag = "running" /\ calls[e].output_dir # <<>>}

\* C14: the scratch directory of a call did not exist before the call and
\* exists while the call runs; two calls that run at the same time hold
\* different directories; when a call returns, on whatever path, its
\* directory does not exist any more, so that the directories that exist are
\* those of the running calls.
C14_ScratchIsOwnedAndRemoved ==
    /\ [](scratch = {calls[e].output_dir : e \in Holding})
    /\ [](\A e1, e2 \in Holding :
             e1 # e2 => calls[e1].output_dir # calls[e2].output_dir)
    /\ [][\A e \in DOMAIN calls :
             /\ ( /\ calls[e].tag # "running"
                  /\ calls'[e].tag = "running"
                  /\ calls'[e].output_dir # <<>> )
                => /\ calls'[e].output_dir \notin scratch
                   /\ calls'[e].output_dir \in scratch'
             /\ (calls[e].tag = "running" /\ calls'[e].tag = "done")
                => calls[e].output_dir \notin scratch']_vars

\* the first evaluator's call has returned the error of a failure status and
\* its directory is gone, while the second evaluator's call, which is about
\* to return a score, holds another
C14_Witness ==
    /\ calls[1].tag = "done"
    /\ calls[1].output_dir = <<"/tmp/.tmpA">>
    /\ calls[1].outcome = "exit_failure"
    /\ calls[1].result = Err("Other")
    /\ calls[2].tag = "running"
    /\ calls[2].output_dir = <<"/tmp/.tmpB">>
    /\ calls[2].result.tag = "Ok"
    /\ scratch = {<<"/tmp/.tmpB">>}


---------------------------------------------------------------------------
(* Properties of the invocation errors, under SpecArgs *)

\* C15: a call whose first value is not categorical, or whose categorical
\* index is past the list of modes, or one of whose later values is not of
\* the kind its parameter declares, returns an error result, with no score,
\* and does not start the external process.
C15_InvocationErrorsAbortTheCall ==
    \A e \in DOMAIN calls :
        LET c == calls[e]
        IN  ( /\ c.tag = "done"
              /\ c.params # <<>>
              /\ \/ c.params[1].tag # "Categorical"
                 \/ c.params[1].v >= Len(OPTIMIZERS)
                 \/ \E i \in 2..Len(c.params) : ~Conforms(c.params[i], i) )
            => /\ c.result.tag = "Err"
               /\ c.result.value = <<>>
               /\ ~c.started


---------------------------------------------------------------------------
(* Properties of the specification of the problem, under Spec *)

\* C16: the specification of a constructed problem reports an expense that is
\* not zero and is the largest entry of the declared schedule, and the
\* capability of concurrent evaluation, whatever the evaluators have done to
\* their schedules.
C16_ExpenseIsLargestEntry ==
    problem.tag = "Ok" =>
        LET spec == specification(problem)
        IN  /\ spec.evaluation_expense # 0
            /\ spec.evaluation_expense = Max(Range(recipe.epochs))
            /\ "Concurrent" \in spec.capabilities


---------------------------------------------------------------------------
(* Properties of the shared problem cache, under SpecCache *)

\* the callers that hold a strong reference
Holders == {c \in Callers : clients[c].handle # 0}

\* C17: at any instant at most one process bound to a signature is alive;
\* the callers that hold a handle for one signature hold the same process; a
\* lookup for a signature whose process is alive returns that process and
\* spawns none; a lookup that finds no live process is followed by the spawn
\* of a process that did not exist, and no process is spawned otherwise.
C17_OneLiveProcessPerSignature ==
    /\ [](\A sig \in Signatures : Cardinality(Alive(sig)) <= 1)
    /\ [](\A c \in Holders :
             /\ clients[c].handle \in Alive(clients[c].signature)
             /\ \A d \in Holders :
                   clients[c].signature = clients[d].signature
                       => clients[c].handle = clients[d].handle)
    /\ [][\A c \in Callers :
             LET sig == clients[c].signature
             IN  /\ (clients[c].pc = "lookup" /\ clients'[c].pc # "lookup") =>
                       IF Alive(sig) # {}
                       THEN /\ clients'[c].pc = "unlock"
                            /\ clients'[c].handle \in Alive(sig)
                            /\ Len(processes') = Len(processes)
                       ELSE /\ clients'[c].pc = "spawn"
                            /\ Len(processes') = Len(processes)
                 /\ (clients[c].pc = "spawn" /\ clients'[c].pc # "spawn") =>
                       /\ Alive(sig) = {}
                       /\ Len(processes') = Len(processes) + 1
                       /\ clients'[c].handle = Len(processes')
                       /\ processes'[Len(processes')].signature = sig
                       /\ processes'[Len(processes')].strong = 1]_vars
    /\ [][Len(processes') # Len(processes) =>
             \E c \in Callers : clients[c].pc = "spawn" /\ clients'[c].pc = "unlock"]_vars

\* the first process of a signature has ended with its last strong
\* reference, and two callers share the second process of that signature
C17_Witness ==
    \E sig \in Signatures :
        /\ Len(processes) = 2
        /\ processes[1] = [signature |-> sig, strong |-> 0, locked_by |-> 0]
        /\ processes[2].signature = sig
        /\ processes[2].strong = 2
        /\ registry[sig] = 2
        /\ clients[1].pc = "holding" /\ clients[1].handle = 2
        /\ clients[2].pc = "holding" /\ clients[2].handle = 2

\* the callers inside an evaluate call
Inside == {c \in Callers : clients[c].pc = "inside"}

\* C18: two callers inside an evaluate call are never on the same handle; a
\* caller whose handle no other caller is inside can always enter, whatever
\* the callers of other signatures do.
C18_SerializedPerHandle ==
    /\ \A c, d \in Inside : c # d => clients[c].handle # clients[d].handle
    /\ \A c \in Callers :
          ( /\ clients[c].pc = "holding"
            /\ \A d \in Inside : clients[d].signature # clients[c].signature )
          => CanEnter(c)

\* two callers are inside evaluate calls on the processes of two signatures
\* while a third waits for one of the two handles
C18_Witness ==
    /\ clients[1].pc = "inside"
    /\ clients[2].pc = "inside"
    /\ clients[1].signature # clients[2].signature
    /\ clients[3].pc = "holding"
    /\ clients[3].handle = clients[1].handle
    /\ ~CanEnter(3)


---------------------------------------------------------------------------
(* Properties of the name of the test problem, under SpecDisplay *)

\* C19: the second argument of the command line and the name in the
\* specification of the problem carry the Display text of the variant, which
\* is the name of the variant in snake_case (its first letter in lower case,
\* the variants holding no other upper-case letter) with no quote character;
\* for Svhn_3c3d it is svhn_3c3d.
C19_DisplayIsSnakeCase ==
    LET variant == recipe.problem
        text == <<ToAsciiLowerCase(Head(variant))>> \o Tail(variant)
    IN  /\ \A i \in 2..Len(variant) : ~IsUpperCase(variant[i])
        /\ problem.tag = "Ok" =>
              specification(problem).name = <<"deepobs/">> \o text
        /\ \A e \in DOMAIN calls :
              (calls[e].tag = "done" /\ calls[e].built) =>
                  /\ calls[e].args[2] = text
                  /\ "\"" \notin Range(calls[e].args[2])
                  /\ variant = Svhn_3c3d =>
                        calls[e].args[2]
                            = <<"s", "v", "h", "n", "_", "3", "c", "3", "d">>

\* the process has been started for Two_d_rosenbrock
C19_Witness ==
    \E e \in DOMAIN calls :
        /\ calls[e].tag = "done"
        /\ calls[e].started
        /\ recipe.problem
               = <<"T", "w", "o", "_", "d", "_", "r", "o", "s", "e", "n", "b",
                   "r", "o", "c", "k">>
        /\ calls[e].args[2]
               = <<"t", "w", "o", "_", "d", "_", "r", "o", "s", "e", "n", "b",
                   "r", "o", "c", "k">>


---------------------------------------------------------------------------
(* Properties of the selection over the calls of one evaluator, under Spec *)

\* C20: for a schedule declared ascending, from one call of evaluate on an
\* evaluator to the next, whatever the two budgets, the selected cost does
\* not decrease; the later call selects among the entries the earlier has
\* left, so a budget that the earlier selection covers selects the same
\* cost again, the cheapest that is left, and not a cheaper declared one.
C20_SelectedNeverDecreases ==
    [][\A e \in DOMAIN calls :
          ( /\ IsAscending(recipe.epochs)
            /\ calls[e].tag = "done"
            /\ calls'[e].tag = "done"
            /\ calls[e].selected
            /\ <<calls[e], evaluators[e]>> # <<calls'[e], evaluators'[e]>> )
          => /\ calls'[e].selected
             /\ calls'[e].epochs >= calls[e].epochs
             /\ calls'[e].before = calls[e].after
             /\ calls'[e].epochs \in Range(calls[e].after)
             /\ calls'[e].budget_in.amount <= calls[e].epochs =>
                   /\ calls'[e].epochs = calls[e].epochs
                   /\ calls'[e].epochs = Min(Range(calls'[e].before))]_vars

\* of [10, 50, 100] the cost 10 has been discarded, and a call with the
\* budget 1 has selected 50
C20_Witness ==
    \E e \in DOMAIN calls :
        /\ recipe.epochs = <<10, 50, 100>>
        /\ calls[e].tag = "done"
        /\ calls[e].before = <<100, 50>>
        /\ calls[e].budget_in.amount = 1
        /\ calls[e].epochs = 50


---------------------------------------------------------------------------
(* Properties of the evaluators of one problem, under SpecFrame *)

\* C21: the schedule declared in the problem never changes; a step that
\* changes the live schedule of an evaluator is a call of evaluate on that
\* evaluator and leaves every other evaluator and its latest call as they
\* were; an evaluator starts with the whole declared schedule, whatever the
\* calls made on the evaluators created before it.
C21_EvaluateChangesOnlyItsEvaluator ==
    /\ [](problem.tag = "Ok" => problem.recipe.epochs = recipe.epochs)
    /\ [](\A e \in DOMAIN evaluators :
             evaluators[e].tag = "Ok" =>
                 evaluators[e].problem.recipe.epochs = recipe.epochs)
    /\ [][/\ recipe' = recipe
          /\ problem.tag = "Ok" => problem' = problem
          /\ \A e \in DOMAIN evaluators :
                /\ (evaluators[e].tag = "none" /\ evaluators'[e].tag = "Ok") =>
                      /\ evaluators'[e].epochs = Reverse(recipe.epochs)
                      /\ \A f \in DOMAIN evaluators \ {e} :
                            evaluators'[f] = evaluators[f]
                      /\ calls' = calls
                /\ (evaluators[e].tag = "Ok" /\ calls'[e] # calls[e]) =>
                      /\ calls'[e].before = evaluators[e].epochs
                      /\ evaluators'[e].epochs = calls'[e].after
                      /\ evaluators'[e].problem = evaluators[e].problem
                      /\ \A f \in DOMAIN evaluators \ {e} :
                            /\ evaluators'[f] = evaluators[f]
                            /\ calls'[f] = calls[f]
                /\ (evaluators[e].tag = "Ok" /\ evaluators'[e] # evaluators[e]) =>
                      calls'[e].tag = "done" /\ calls'[e].after = evaluators'[e].epochs
                      /\ calls'[e].before = evaluators[e].epochs]_vars

\* the first evaluator has discarded 10 and 50 of [10, 50, 100] while the
\* second, not yet called, holds the three entries
C21_Witness ==
    /\ recipe.epochs = <<10, 50, 100>>
    /\ calls[1].tag = "done"
    /\ evaluators[1].epochs = <<100>>
    /\ evaluators[2].tag = "Ok"
    /\ evaluators[2].epochs = <<100, 50, 10>>
    /\ calls[2].tag = "none"
    /\ problem.recipe.epochs = <<10, 50, 100>>


---------------------------------------------------------------------------
(* Properties of the live schedule, under Spec *)

\* C22: the live schedule of an evaluator always holds at least one entry
\* and only entries of the declared schedule; every call of evaluate reads
\* its selected cost, and that cost is an entry of the declared schedule.
C22_LiveScheduleIsNeverEmpty ==
    \A e \in DOMAIN evaluators :
        /\ evaluators[e].tag = "Ok" =>
              /\ evaluators[e].epochs # <<>>
              /\ Range(evaluators[e].epochs) \subseteq Range(recipe.epochs)
        /\ calls[e].tag # "none" =>
              /\ calls[e].selected
              /\ calls[e].after # <<>>
              /\ calls[e].epochs \in Range(recipe.epochs)

\* of [0, 1, 2] one entry is left after a call with a budget that no entry
\* covers, and the selected cost is that entry, not the budget
C22_Witness ==
    \E e \in DOMAIN evaluators :
        /\ recipe.epochs = <<0, 1, 2>>
        /\ calls[e].tag = "done"
        /\ calls[e].budget_in.amount = 3
        /\ calls[e].epochs = 2
        /\ evaluators[e].epochs = <<2>>


---------------------------------------------------------------------------
(* Properties of the failed calls, under SpecFrame *)

\* the call has ended without passing the check of the exit status
FailedEarly(c) ==
    c.tag = "done" /\ c.selected /\ ~(c.started /\ c.outcome = "exit_ok")

\* C23: a call that fails before or at the check of the exit status leaves
\* the amount and the consumption of the budget as the caller passed them,
\* while the entries its selection has discarded stay discarded: the next
\* call on the evaluator starts from what the failed call has left, and with
\* the same amount it selects the same cost.
C23_FailureKeepsBudgetAndDiscards ==
    /\ [](\A e \in DOMAIN calls :
             FailedEarly(calls[e]) =>
                 /\ calls[e].result.tag # "Ok"
                 /\ calls[e].budget = calls[e].budget_in
                 /\ evaluators[e].epochs = calls[e].after)
    /\ [][\A e \in DOMAIN calls :
             (FailedEarly(calls[e]) /\ calls'[e] # calls[e]) =>
                 /\ calls'[e].before = calls[e].after
                 /\ calls'[e].budget_in.amount = calls[e].budget_in.amount =>
                       /\ calls'[e].epochs = calls[e].epochs
                       /\ calls'[e].after = calls[e].after]_vars

\* the process has exited with a failure status in a call with the budget 40
\* on [10, 50, 100]: 10 is discarded, the budget is as it was passed
C23_Witness ==
    \E e \in DOMAIN calls :
        /\ FailedEarly(calls[e])
        /\ calls[e].outcome = "exit_failure"
        /\ calls[e].started
        /\ calls[e].before = <<100, 50, 10>>
        /\ evaluators[e].epochs = <<100, 50>>
        /\ calls[e].epochs = 50
        /\ calls[e].budget = [amount |-> 40, consumption |-> 9]


---------------------------------------------------------------------------
(* Properties of the sigopt problem, under SpecSigopt *)

\* C24: a call of evaluate with next_step other than 1 returns the error Bug
\* and no value; a call with next_step = 1 returns the step 1 and one value;
\* no call changes the evaluator, and all the calls with next_step = 1 made
\* on it have returned the same result.
C24_OnlyStepOneIsEvaluated ==
    /\ [](\A k \in 1..Len(sigopt.calls) :
             LET c == sigopt.calls[k]
             IN  IF c.next_step = 1
                 THEN /\ c.result.tag = "Ok"
                      /\ c.result.step = 1
                      /\ Len(c.result.values) = 1
                      /\ \A j \in 1..Len(sigopt.calls) :
                            sigopt.calls[j].next_step = 1
                                => sigopt.calls[j].result = c.result
                 ELSE /\ c.result.tag = "Err"
                      /\ c.result.kind = "Bug"
                      /\ c.result.values = <<>>)
    /\ [][sigopt.evaluator.tag = "Ok" =>
             /\ sigopt'.evaluator = sigopt.evaluator
             /\ Len(sigopt'.calls) > Len(sigopt.calls) =>
                   SubSeq(sigopt'.calls, 1, Len(sigopt.calls)) = sigopt.calls]_vars

\* the calls 1, 2, 1 on an evaluator with a resolution of 2: the value 1.4
\* of the function is returned as 1 by the first and by the third call
C24_Witness ==
    /\ Len(sigopt.calls) = 3
    /\ sigopt.evaluator.res = Some(20)
    /\ sigopt.evaluator.test_function = "Ackley"
    /\ sigopt.evaluator.params = <<25, 0, 7>>
    /\ sigopt.calls[1] = [next_step |-> 1, result |-> SigoptOk(1, <<Finite(35)>>)]
    /\ sigopt.calls[2] = [next_step |-> 2, result |-> SigoptErr("Bug")]
    /\ sigopt.calls[3] = sigopt.calls[1]

\* the least whole number that is not below t/10
LeastWholeNotBelow(t) == CHOOSE n \in -10..10 : 10 * n >= t /\ 10 * (n - 1) < t

\* the greatest whole number that is not above t/10
GreatestWholeNotAbove(t) == CHOOSE n \in -10..10 : 10 * n <= t /\ 10 * (n + 1) > t

\* C25: the dimension of the factory is the recipe's dim when given and the
\* default dimension of the test function when not; the specification
\* declares one parameter for each bound the test function returns for that
\* dimension, named p0, p1, ... in the order of the bounds; the parameter of
\* index i is discrete with the bounds (ceil(low), floor(high)) when i is
\* among the recipe's integer-only indices, continuous with the bounds
\* (low, high) when not.
C25_OneParameterPerBound ==
    LET test_function == Functions[sigopt.recipe.name]
    IN  /\ sigopt.factory.tag = "Ok" =>
              sigopt.factory.dim = IF sigopt.recipe.dim.some
                                   THEN sigopt.recipe.dim.v
                                   ELSE test_function.default_dimension
        /\ sigopt.spec.tag = "Ok" =>
              /\ sigopt.factory.dim \in test_function.dims
              /\ Len(sigopt.spec.params) = sigopt.factory.dim
              /\ \A k \in 1..Len(sigopt.spec.params) :
                    LET param == sigopt.spec.params[k]
                        low == test_function.bounds[k][1]
                        high == test_function.bounds[k][2]
                    IN  /\ param.name = <<"p", Digit(k - 1)>>
                        /\ IF \E j \in 1..Len(sigopt.recipe.int) :
                                 sigopt.recipe.int[j] = k - 1
                           THEN /\ param.kind = "discrete"
                                /\ param.low = LeastWholeNotBelow(low)
                                /\ param.high = GreatestWholeNotAbove(high)
                           ELSE /\ param.kind = "continuous"
                                /\ param.low = low
                                /\ param.high = high

\* Hartmann3 with its default dimension and --int 2: p0 and p1 continuous,
\* p2 discrete with the bounds (-3, 3) of (-3.7, 3.0)
C25_Witness ==
    /\ sigopt.recipe.name = "Hartmann3"
    /\ sigopt.recipe.dim = None
    /\ sigopt.recipe.int = <<2>>
    /\ sigopt.spec.tag = "Ok"
    /\ Len(sigopt.spec.params) = 3
    /\ sigopt.spec.params[1]
           = [name |-> <<"p", "0">>, kind |-> "continuous", low |-> 0, high |-> 10]
    /\ sigopt.spec.params[3]
           = [name |-> <<"p", "2">>, kind |-> "discrete", low |-> -3, high |-> 3]

---------------------------------------------------------------------------
(* Properties of the filtering loop of the stats command, under SpecStats *)

\* the positions in the input of the records of a list
IdsOf(studies) == {studies[k].id : k \in DOMAIN studies}

\* C26: the filtering loop of the stats command ends for every input list,
\* and when it has ended the retained records are the input records whose
\* optimizer object has the key "random" or "random-normal": each of them
\* is retained once, unchanged, and no other record is retained; the order
\* of the retained records is left open.
C26_FilterLoopRetainsRandom ==
    /\ (stats.pc = "loop") ~> (stats.pc = "done")
    /\ [](stats.pc = "done" =>
            /\ IdsOf(stats.studies)
                   = {k \in DOMAIN stats.input : IsRandom(stats.input[k])}
            /\ \A j, k \in DOMAIN stats.studies :
                   stats.studies[j].id = stats.studies[k].id => j = k
            /\ \A k \in DOMAIN stats.studies :
                   stats.studies[k] = stats.input[stats.studies[k].id])

\* the loop has ended on three records of which the first was removed: the
\* third took its place, so the two retained records are in the other order
C26_Witness ==
    /\ stats.pc = "done"
    /\ Len(stats.input) = 3
    /\ stats.input[1].optimizer = {"tpe"}
    /\ stats.input[2].optimizer = {"random"}
    /\ stats.input[3].optimizer = {"random-normal"}
    /\ stats.studies = <<stats.input[3], stats.input[2]>>

=============================================================================
